---------------------------- MODULE Spec2Model ----------------------------
(***************************************************************************)
(* A model of wetext-rs: the automaton applier (text_normalizer.rs), the   *)
(* token parser and reorderer (token_parser.rs) and the normalization      *)
(* pipeline with its automaton cache (normalizer.rs).                      *)
(*                                                                         *)
(* A text is a sequence of Unicode code points (natural numbers); the      *)
(* character predicates are those of the Rust standard library.  The       *)
(* automata are opaque binary artifacts: what a file holds and what the    *)
(* compose / shortest-path library returns for an input is the             *)
(* environment's choice, drawn from the outcomes the code distinguishes.   *)
(***************************************************************************)
EXTENDS Naturals, Sequences, FiniteSets, TLC

VARIABLES
    pc,        \* position of the normalize call: idle, pre, detect, ... done
    config,    \* Normalizer.config: the configuration given to Normalizer::new
    input,     \* the text normalize_with_config was called with
    cfg,       \* the NormalizerConfig of the call
    text,      \* the local `text` of normalize_with_config
    lang,      \* the language resolved in step 3
    cache,     \* FstCache.fsts: the logical paths that hold a loaded automaton
    fs,        \* the artifact files as found so far: path -> unknown/ok/missing/corrupt
    loads,     \* per path: the file reads of from_file, the requests served
               \* from the cache
    calls,     \* the normalize calls begun on this Normalizer
    requests,  \* the logical paths requested from the cache in this call, in order
    ran,       \* the stages this call has executed, in order
    gateText,  \* the text should_normalize was evaluated on
    result,    \* the value normalize_with_config returned
    failure,   \* the first error get_or_load or an automaton returned in this call
    aInput,    \* applier: the input of FstTextNormalizer::normalize
    aOutcome,  \* applier: the library's answer for that input
    aResult,   \* applier: the value normalize returned
    dText,     \* detection: the text given to detect_language
    dLang,     \* detection: the language it returned
    pOrders,   \* parser: the language and operator of the TokenParser
    pChars,    \* parser: the input of reorder
    pState,    \* parser: the state of parse (position, tokens, loop)
    pLast,     \* parser: the last loop iteration and the positions before it
    pResult,   \* parser: the value reorder returned
    pAgain,    \* parser: the value reorder returned for that value
    nInput,    \* whole call: a text, the whitespace put around it, a configuration
    nResults   \* whole call: what normalize can return for the text bare and padded

pipeVars ==
    <<pc, config, input, cfg, text, lang, cache, fs, loads, calls, requests,
      ran, gateText, result, failure>>

applyVars == <<aInput, aOutcome, aResult>>

detectVars == <<dText, dLang>>

parseVars == <<pOrders, pChars, pState, pLast, pResult, pAgain>>

callVars == <<nInput, nResults>>

vars == <<pipeVars, applyVars, detectVars, parseVars, callVars>>

(***************************************************************************)
(* Bounds of the model.                                                    *)
(***************************************************************************)
\* longest input text drawn from Alphabet
MaxLen == 1
\* longest input text of the applier and longest output label sequence
MaxApplyLen == 2
MaxLabels == 3
\* longest text given to detect_language
MaxDetectLen == 2
\* longest free text given to the token parser, and most fields of a
\* generated token
MaxParseLen == 3
MaxFields == 2
\* most boolean toggles one configuration enables
MaxToggles == 1
\* most normalize calls on one Normalizer
MaxCalls == 2
\* longest run of whitespace put before or after a text
MaxPad == 1

(***************************************************************************)
(* Characters.                                                             *)
(***************************************************************************)
\* char::is_whitespace (Unicode White_Space), used by str::trim
IsWhitespace(c) ==
    \/ c \in 9..13
    \/ c \in {32, 133, 160, 5760, 8232, 8233, 8239, 8287, 12288}
    \/ c \in 8192..8202

\* char::is_ascii_digit
IsAsciiDigit(c) == c \in 48..57

\* char::is_ascii_alphabetic
IsAsciiAlphabetic(c) == c \in 65..90 \/ c \in 97..122

\* str::contains(char)
Contains(s, c) == \E i \in 1..Len(s) : s[i] = c

\* str::trim_start
RECURSIVE TrimStart(_)
TrimStart(s) ==
    IF s # <<>> /\ IsWhitespace(Head(s)) THEN TrimStart(Tail(s)) ELSE s

\* str::trim_end
RECURSIVE TrimEnd(_)
TrimEnd(s) ==
    IF s # <<>> /\ IsWhitespace(s[Len(s)])
    THEN TrimEnd(SubSeq(s, 1, Len(s) - 1))
    ELSE s

\* str::trim
Trim(s) == TrimEnd(TrimStart(s))

\* the texts over alphabet A of length at most n
RECURSIVE TextsUpTo(_, _)
TextsUpTo(A, n) ==
    IF n = 0 THEN {<<>>}
    ELSE LET shorter == TextsUpTo(A, n - 1)
         IN shorter \cup {Append(s, c) : s \in shorter, c \in A}

(***************************************************************************)
(* Results: Result<String, WeTextError> (error.rs).                        *)
(***************************************************************************)
Ok(v) == [ok |-> TRUE, val |-> v, err |-> "none"]

Err(e) == [ok |-> FALSE, val |-> <<>>, err |-> e]

\* no value returned yet
NoResult == [ok |-> FALSE, val |-> <<>>, err |-> "pending"]

(***************************************************************************)
(* UTF-8: str::as_bytes and String::from_utf8.                             *)
(***************************************************************************)
\* the UTF-8 bytes of one code point
Utf8EncodeChar(c) ==
    IF c < 128 THEN <<c>>
    ELSE IF c < 2048 THEN <<192 + (c \div 64), 128 + (c % 64)>>
    ELSE IF c < 65536
         THEN <<224 + (c \div 4096), 128 + ((c \div 64) % 64), 128 + (c % 64)>>
    ELSE <<240 + (c \div 262144), 128 + ((c \div 4096) % 64),
           128 + ((c \div 64) % 64), 128 + (c % 64)>>

\* input.as_bytes(): the UTF-8 encoding of a text
RECURSIVE Utf8Encode(_)
Utf8Encode(s) ==
    IF s = <<>> THEN <<>> ELSE Utf8EncodeChar(Head(s)) \o Utf8Encode(Tail(s))

IsCont(b) == b \in 128..191

\* the number of bytes of the well-formed UTF-8 sequence that starts b at
\* position i, 0 when there is none
Utf8SeqLen(b, i) ==
    LET n == Len(b)
        b0 == b[i]
        b1 == IF i + 1 <= n THEN b[i + 1] ELSE 0
        b2 == IF i + 2 <= n THEN b[i + 2] ELSE 0
        b3 == IF i + 3 <= n THEN b[i + 3] ELSE 0
    IN IF b0 < 128 THEN 1
       ELSE IF b0 \in 194..223 THEN (IF IsCont(b1) THEN 2 ELSE 0)
       ELSE IF b0 = 224 THEN (IF b1 \in 160..191 /\ IsCont(b2) THEN 3 ELSE 0)
       ELSE IF b0 \in 225..236 \/ b0 \in 238..239
            THEN (IF IsCont(b1) /\ IsCont(b2) THEN 3 ELSE 0)
       ELSE IF b0 = 237 THEN (IF b1 \in 128..159 /\ IsCont(b2) THEN 3 ELSE 0)
       ELSE IF b0 = 240
            THEN (IF b1 \in 144..191 /\ IsCont(b2) /\ IsCont(b3) THEN 4 ELSE 0)
       ELSE IF b0 \in 241..243
            THEN (IF IsCont(b1) /\ IsCont(b2) /\ IsCont(b3) THEN 4 ELSE 0)
       ELSE IF b0 = 244
            THEN (IF b1 \in 128..143 /\ IsCont(b2) /\ IsCont(b3) THEN 4 ELSE 0)
       ELSE 0

\* the code point of the k-byte sequence at position i
Utf8CodePoint(b, i, k) ==
    IF k = 1 THEN b[i]
    ELSE IF k = 2 THEN (b[i] - 192) * 64 + (b[i + 1] - 128)
    ELSE IF k = 3
         THEN (b[i] - 224) * 4096 + (b[i + 1] - 128) * 64 + (b[i + 2] - 128)
    ELSE (b[i] - 240) * 262144 + (b[i + 1] - 128) * 4096
         + (b[i + 2] - 128) * 64 + (b[i + 3] - 128)

\* String::from_utf8 from position i on: the decoded text, or failure
RECURSIVE Utf8DecodeFrom(_, _, _)
Utf8DecodeFrom(b, i, acc) ==
    IF i > Len(b) THEN [ok |-> TRUE, val |-> acc]
    ELSE LET k == Utf8SeqLen(b, i)
         IN IF k = 0 THEN [ok |-> FALSE, val |-> <<>>]
            ELSE Utf8DecodeFrom(b, i + k, Append(acc, Utf8CodePoint(b, i, k)))

Utf8Decode(b) == Utf8DecodeFrom(b, 1, <<>>)

(***************************************************************************)
(* The automaton applier, FstTextNormalizer (text_normalizer.rs).          *)
(***************************************************************************)
\* rustfst::EPS_LABEL
EPS_LABEL == 0

\* char::from_u32: a label is a scalar value unless it is a surrogate or
\* lies beyond U+10FFFF
IsScalarValue(l) == l <= 1114111 /\ ~(l \in 55296..57343)

\* what compose, shortest_path and decode_linear_fst return for one input:
\* an error of compose, a composed automaton without states, an error of
\* shortest_path, a best path without states, an error of
\* decode_linear_fst, or the output labels of the best path
OutcomeKinds ==
    {"compose_err", "compose_empty", "sp_err", "sp_empty", "linear_err", "path"}

LibOutcome(k, ls) == [kind |-> k, olabels |-> ls]

\* fst_to_string that fails on a label that is no scalar value instead of
\* leaving it out
fst_to_string_strict(oc) ==
    IF oc.kind \in {"compose_empty", "sp_empty"} THEN Ok(<<>>)
    ELSE IF oc.kind = "linear_err" THEN Err("FstOperationError")
    ELSE LET has_high_codepoint ==
                 \E i \in 1..Len(oc.olabels) :
                     oc.olabels[i] # EPS_LABEL /\ oc.olabels[i] > 255
             IsSymbol(l) == l # EPS_LABEL
             symbols == SelectSeq(oc.olabels, IsSymbol)
             decoded == Utf8Decode(symbols)
         IN IF has_high_codepoint
            THEN IF \A i \in 1..Len(symbols) : IsScalarValue(symbols[i])
                 THEN Ok(symbols) ELSE Err("FstOperationError")
            ELSE IF decoded.ok THEN Ok(decoded.val)
                 ELSE Err("FstOperationError")

\* FstTextNormalizer::fst_to_string on the best path
fst_to_string(oc) ==
    IF oc.kind \in {"compose_empty", "sp_empty"} THEN Ok(<<>>)
    ELSE IF oc.kind = "linear_err" THEN Err("FstOperationError")
    ELSE LET has_high_codepoint ==
                 \E i \in 1..Len(oc.olabels) :
                     oc.olabels[i] # EPS_LABEL /\ oc.olabels[i] > 255
             IsChar(l) == l # EPS_LABEL /\ IsScalarValue(l)
             IsSymbol(l) == l # EPS_LABEL
         IN IF has_high_codepoint
            THEN Ok(SelectSeq(oc.olabels, IsChar))
            ELSE LET decoded == Utf8Decode(SelectSeq(oc.olabels, IsSymbol))
                 IN IF decoded.ok THEN Ok(decoded.val)
                    ELSE Err("FstOperationError")

\* normalize without the early return for the empty input
fst_normalize_no_empty_check(inp, oc) ==
    IF oc.kind = "compose_err" THEN Err("FstOperationError")
    ELSE IF oc.kind = "compose_empty" THEN Ok(inp)
    ELSE IF oc.kind = "sp_err" THEN Err("FstOperationError")
    ELSE IF oc.kind = "sp_empty" THEN Ok(inp)
    ELSE fst_to_string(oc)

\* normalize without the check of an empty best path: fst_to_string
\* answers the empty text for it
fst_normalize_no_path_check(inp, oc) ==
    IF inp = <<>> THEN Ok(<<>>)
    ELSE IF oc.kind = "compose_err" THEN Err("FstOperationError")
    ELSE IF oc.kind = "compose_empty" THEN Ok(inp)
    ELSE IF oc.kind = "sp_err" THEN Err("FstOperationError")
    ELSE fst_to_string(oc)

\* FstTextNormalizer::normalize
fst_normalize(inp, oc) ==
    IF inp = <<>> THEN Ok(<<>>)
    ELSE IF oc.kind = "compose_err" THEN Err("FstOperationError")
    ELSE IF oc.kind = "compose_empty" THEN Ok(inp)
    ELSE IF oc.kind = "sp_err" THEN Err("FstOperationError")
    ELSE IF oc.kind = "sp_empty" THEN Ok(inp)
    ELSE fst_to_string(oc)

(***************************************************************************)
(* Tokens and the field-order tables (token_parser.rs).  The names and     *)
(* keys of the tables are spelled as code points.                          *)
(***************************************************************************)
\* "date"
str_date == <<100, 97, 116, 101>>

\* "fraction"
str_fraction == <<102, 114, 97, 99, 116, 105, 111, 110>>

\* "measure"
str_measure == <<109, 101, 97, 115, 117, 114, 101>>

\* "money"
str_money == <<109, 111, 110, 101, 121>>

\* "time"
str_time == <<116, 105, 109, 101>>

\* "year"
str_year == <<121, 101, 97, 114>>

\* "month"
str_month == <<109, 111, 110, 116, 104>>

\* "day"
str_day == <<100, 97, 121>>

\* "denominator"
str_denominator == <<100, 101, 110, 111, 109, 105, 110, 97, 116, 111, 114>>

\* "numerator"
str_numerator == <<110, 117, 109, 101, 114, 97, 116, 111, 114>>

\* "value"
str_value == <<118, 97, 108, 117, 101>>

\* "currency"
str_currency == <<99, 117, 114, 114, 101, 110, 99, 121>>

\* "noon"
str_noon == <<110, 111, 111, 110>>

\* "hour"
str_hour == <<104, 111, 117, 114>>

\* "minute"
str_minute == <<109, 105, 110, 117, 116, 101>>

\* "second"
str_second == <<115, 101, 99, 111, 110, 100>>

\* "preserve_order"
str_preserve_order == <<112, 114, 101, 115, 101, 114, 118, 101, 95, 111, 114, 100, 101, 114>>

\* "text"
str_text == <<116, 101, 120, 116>>

\* "integer_part"
str_integer_part == <<105, 110, 116, 101, 103, 101, 114, 95, 112, 97, 114, 116>>

\* "fractional_part"
str_fractional_part == <<102, 114, 97, 99, 116, 105, 111, 110, 97, 108, 95, 112, 97, 114, 116>>

\* "quantity"
str_quantity == <<113, 117, 97, 110, 116, 105, 116, 121>>

\* "currency_maj"
str_currency_maj == <<99, 117, 114, 114, 101, 110, 99, 121, 95, 109, 97, 106>>

\* "sign"
str_sign == <<115, 105, 103, 110>>

\* "decimal"
str_decimal == <<100, 101, 99, 105, 109, 97, 108>>

\* "true"
str_true == <<116, 114, 117, 101>>

\* TokenParser::tn_orders
tn_orders ==
    [n \in {str_date, str_fraction, str_measure, str_money, str_time} |->
        IF n = str_date THEN <<str_year, str_month, str_day>>
        ELSE IF n = str_fraction THEN <<str_denominator, str_numerator>>
        ELSE IF n = str_measure
             THEN <<str_denominator, str_numerator, str_value>>
        ELSE IF n = str_money THEN <<str_value, str_currency>>
        ELSE <<str_noon, str_hour, str_minute, str_second>>]

\* TokenParser::en_tn_orders
en_tn_orders ==
    [n \in {str_date, str_money} |->
        IF n = str_date
        THEN <<str_preserve_order, str_text, str_day, str_month, str_year>>
        ELSE <<str_integer_part, str_fractional_part, str_quantity,
               str_currency_maj>>]

\* TokenParser::itn_orders
itn_orders ==
    [n \in {str_date, str_fraction, str_measure, str_money, str_time} |->
        IF n = str_date THEN <<str_year, str_month, str_day>>
        ELSE IF n = str_fraction
             THEN <<str_sign, str_numerator, str_denominator>>
        ELSE IF n = str_measure
             THEN <<str_numerator, str_denominator, str_value>>
        ELSE IF n = str_money THEN <<str_currency, str_value, str_decimal>>
        ELSE <<str_hour, str_minute, str_second, str_noon>>]

\* HashMap::new(): the table without entries
no_orders == [n \in {} |-> <<>>]

\* TokenParser::new with Japanese given no table
TokenParser_new_zh_only(l, op) ==
    IF l = "En" /\ op = "Tn" THEN en_tn_orders
    ELSE IF l = "Zh" /\ op = "Tn" THEN tn_orders
    ELSE IF l = "Zh" /\ op = "Itn" THEN itn_orders
    ELSE no_orders

\* TokenParser::new: the table of a language and an operator
TokenParser_new(l, op) ==
    IF l = "En" /\ op = "Tn" THEN en_tn_orders
    ELSE IF l \in {"Zh", "Ja"} /\ op = "Tn" THEN tn_orders
    ELSE IF l \in {"Zh", "Ja"} /\ op = "Itn" THEN itn_orders
    ELSE no_orders

\* Token::new
Token_new(name) == [name |-> name, order |-> <<>>, members |-> [k \in {} |-> <<>>]]

\* append that records the value and leaves the order list as it is
Token_append_unordered(t, key, value) ==
    [t EXCEPT !.members = [k \in DOMAIN t.members \cup {key} |->
                              IF k = key THEN value ELSE t.members[k]]]

\* Token::append
Token_append(t, key, value) ==
    [t EXCEPT !.order = Append(t.order, key),
              !.members = [k \in DOMAIN t.members \cup {key} |->
                              IF k = key THEN value ELSE t.members[k]]]

\* the choice of order by the presence of preserve_order, whatever its value
chosen_order_by_presence(t, orders) ==
    IF t.name \in DOMAIN orders
    THEN IF ~(str_preserve_order \in DOMAIN t.members)
         THEN orders[t.name]
         ELSE t.order
    ELSE t.order

\* the order to_string_with_order chooses for a token
chosen_order(t, orders) ==
    IF t.name \in DOMAIN orders
    THEN IF ~(str_preserve_order \in DOMAIN t.members
              /\ t.members[str_preserve_order] = str_true)
         THEN orders[t.name]
         ELSE t.order
    ELSE t.order

\* the keys to_string_with_order emits, in order: those of the chosen order
\* that the token has
emitted_keys(t, orders) ==
    LET IsMember(k) == k \in DOMAIN t.members
    IN SelectSeq(chosen_order(t, orders), IsMember)

\* the fields of keys ks, each formatted as ` key: "value"`
RECURSIVE format_fields(_, _)
format_fields(t, ks) ==
    IF ks = <<>> THEN <<>>
    ELSE <<32>> \o Head(ks) \o <<58, 32, 34>> \o t.members[Head(ks)] \o <<34>>
         \o format_fields(t, Tail(ks))

\* Token::to_string_with_order: `name { key: "value" ... }`
to_string_with_order(t, orders) ==
    t.name \o <<32, 123>> \o format_fields(t, emitted_keys(t, orders)) \o <<32, 125>>

(***************************************************************************)
(* TokenParser::parse and TokenParser::reorder.  `index` counts from 0 as  *)
(* in the source; a parser state holds the position, the tokens pushed,    *)
(* the token under construction and the loop the scan is in.               *)
(***************************************************************************)
\* chars[index]
Ch(chars, i) == chars[i + 1]

\* the character classes the scanning loops test
InClass(c, cls) ==
    IF cls = "ws" THEN IsWhitespace(c)
    ELSE IF cls = "name" THEN IsAsciiAlphabetic(c) \/ c = 95
    ELSE IF cls = "ws_brace" THEN IsWhitespace(c) \/ c = 123
    ELSE c = 58 \/ c = 32

\* while index < chars.len() && class(chars[index]) { index += 1 }
RECURSIVE SkipWhile(_, _, _)
SkipWhile(chars, i, cls) ==
    IF i < Len(chars) /\ InClass(Ch(chars, i), cls)
    THEN SkipWhile(chars, i + 1, cls)
    ELSE i

\* the value loop: up to the next unescaped '"', a '\' escaping the
\* character after it; both are pushed to the value
RECURSIVE ScanValue(_, _, _, _)
ScanValue(chars, i, escape, value) ==
    IF i < Len(chars) /\ (escape \/ Ch(chars, i) # 34)
    THEN ScanValue(chars, i + 1,
                   IF escape THEN FALSE ELSE Ch(chars, i) = 92,
                   Append(value, Ch(chars, i)))
    ELSE [index |-> i, value |-> value]

\* the parser before the first iteration
ParseInit ==
    [phase |-> "outer", index |-> 0, tokens |-> <<>>,
     token |-> Token_new(<<>>), errchar |-> 0, errpos |-> 0]

\* one iteration of the outer loop up to the start of the key-value loop
OuterStep(chars, p) ==
    IF ~(p.index < Len(chars)) THEN [p EXCEPT !.phase = "done"]
    ELSE LET i1 == SkipWhile(chars, p.index, "ws")
         IN IF i1 >= Len(chars) THEN [p EXCEPT !.phase = "done", !.index = i1]
            ELSE LET i2 == SkipWhile(chars, i1, "name")
                     name == SubSeq(chars, i1 + 1, i2)
                 IN IF name = <<>>
                    THEN IF i2 < Len(chars)
                         THEN [p EXCEPT !.phase = "err", !.index = i2,
                                        !.errchar = Ch(chars, i2), !.errpos = i2]
                         ELSE [p EXCEPT !.phase = "done", !.index = i2]
                    ELSE [p EXCEPT !.phase = "inner",
                                   !.index = SkipWhile(chars, i2, "ws_brace"),
                                   !.token = Token_new(name)]

\* the step of an empty key without the skip: the position stays
EmptyKeySkip_stay(chars, i) == i

\* the step of an empty key: skip the character that is no key character
EmptyKeySkip(chars, i) ==
    IF i < Len(chars) /\ Ch(chars, i) # 125 THEN i + 1 ELSE i

\* the key-value loop with a failure where the source skips: a character
\* that starts no key ends the parse
InnerStep_strict(chars, p) ==
    LET i1 == SkipWhile(chars, p.index, "ws")
    IN IF i1 >= Len(chars) \/ Ch(chars, i1) = 125
       THEN [p EXCEPT !.phase = "outer",
                      !.index = IF i1 < Len(chars) THEN i1 + 1 ELSE i1,
                      !.tokens = Append(p.tokens, p.token)]
       ELSE LET i2 == SkipWhile(chars, i1, "name")
                key == SubSeq(chars, i1 + 1, i2)
            IN IF key = <<>>
               THEN [p EXCEPT !.phase = "err", !.index = i2,
                              !.errchar = Ch(chars, i2), !.errpos = i2]
               ELSE LET i3 == SkipWhile(chars, i2, "colon_space")
                        i4 == IF i3 < Len(chars) /\ Ch(chars, i3) = 34
                              THEN i3 + 1 ELSE i3
                        v == ScanValue(chars, i4, FALSE, <<>>)
                        i6 == IF v.index < Len(chars) /\ Ch(chars, v.index) = 34
                              THEN v.index + 1 ELSE v.index
                    IN [p EXCEPT !.index = i6,
                                 !.token = Token_append(p.token, key, v.value)]

\* one iteration of the key-value loop
InnerStep(chars, p) ==
    LET i1 == SkipWhile(chars, p.index, "ws")
    IN IF i1 >= Len(chars) \/ Ch(chars, i1) = 125
       THEN [p EXCEPT !.phase = "outer",
                      !.index = IF i1 < Len(chars) THEN i1 + 1 ELSE i1,
                      !.tokens = Append(p.tokens, p.token)]
       ELSE LET i2 == SkipWhile(chars, i1, "name")
                key == SubSeq(chars, i1 + 1, i2)
            IN IF key = <<>>
               THEN [p EXCEPT !.index = EmptyKeySkip(chars, i2)]
               ELSE LET i3 == SkipWhile(chars, i2, "colon_space")
                        i4 == IF i3 < Len(chars) /\ Ch(chars, i3) = 34
                              THEN i3 + 1 ELSE i3
                        v == ScanValue(chars, i4, FALSE, <<>>)
                        i6 == IF v.index < Len(chars) /\ Ch(chars, v.index) = 34
                              THEN v.index + 1 ELSE v.index
                    IN [p EXCEPT !.index = i6,
                                 !.token = Token_append(p.token, key, v.value)]

\* the parser run to its end from state p
RECURSIVE ParseFrom(_, _)
ParseFrom(chars, p) ==
    IF p.phase = "outer" THEN ParseFrom(chars, OuterStep(chars, p))
    ELSE IF p.phase = "inner" THEN ParseFrom(chars, InnerStep(chars, p))
    ELSE p

\* TokenParser::parse: Ok(tokens) or Err(TokenParseError)
parse(chars) ==
    LET p == ParseFrom(chars, ParseInit)
    IN IF p.phase = "err"
       THEN [ok |-> FALSE, tokens |-> <<>>, errchar |-> p.errchar, errpos |-> p.errpos]
       ELSE [ok |-> TRUE, tokens |-> p.tokens, errchar |-> 0, errpos |-> 0]

\* output.join(" ")
RECURSIVE JoinSpace(_)
JoinSpace(ss) ==
    IF ss = <<>> THEN <<>>
    ELSE IF Len(ss) = 1 THEN ss[1]
    ELSE ss[1] \o <<32>> \o JoinSpace(Tail(ss))

\* reorder handing the parse failure on instead of the input
reorder_result_propagate(orders, inp, parsed) ==
    IF parsed.ok
    THEN Ok(JoinSpace([i \in 1..Len(parsed.tokens) |->
                          to_string_with_order(parsed.tokens[i], orders)]))
    ELSE Err("TokenParseError")

\* the text reorder returns for a parse result
reorder_result(orders, inp, parsed) ==
    IF parsed.ok
    THEN Ok(JoinSpace([i \in 1..Len(parsed.tokens) |->
                          to_string_with_order(parsed.tokens[i], orders)]))
    ELSE Ok(inp)

\* reorder returning the brace-less input trimmed
reorder_early_trimmed(inp) ==
    IF Trim(inp) = <<>> THEN Ok(<<>>)
    ELSE IF ~Contains(inp, 123) THEN Ok(Trim(inp))
    ELSE NoResult

\* reorder without the test for a blank input: a blank text holds no '{'
\* and is returned as it is
reorder_early_no_blank_check(inp) ==
    IF ~Contains(inp, 123) THEN Ok(inp)
    ELSE NoResult

\* reorder before parse: Ok("") for an empty or blank input, the input
\* itself when it holds no '{', NoResult when it is to be parsed
reorder_early(inp) ==
    IF Trim(inp) = <<>> THEN Ok(<<>>)
    ELSE IF ~Contains(inp, 123) THEN Ok(inp)
    ELSE NoResult

\* TokenParser::reorder
reorder(orders, inp) ==
    IF reorder_early(inp) # NoResult THEN reorder_early(inp)
    ELSE reorder_result(orders, inp, parse(inp))

(***************************************************************************)
(* The contraction expander (contractions.rs).  The rule tables are data   *)
(* files outside the sources; the rule modelled is the one the module's    *)
(* tests state, "don't" -> "do not", with its curly-apostrophe variant.    *)
(***************************************************************************)
\* str::to_lowercase on the ASCII letters
Lower(c) == IF c \in 65..90 THEN c + 32 ELSE c

\* a word character of the regex class \w, on the characters of the model:
\* ASCII letters, digits and underscore, kana and CJK ideographs
IsWordChar(c) ==
    \/ IsAsciiAlphabetic(c) \/ IsAsciiDigit(c) \/ c = 95
    \/ c \in 12352..12543 \/ c \in 19968..40959

\* the pattern matches case-insensitively at position i (from 1)
MatchesAt(s, i, pat) ==
    /\ i + Len(pat) - 1 <= Len(s)
    /\ \A j \in 1..Len(pat) : Lower(s[i + j - 1]) = Lower(pat[j])

\* \b between the characters before and after position i (from 1)
WordBoundary(s, i) ==
    LET before == i > 1 /\ IsWordChar(s[i - 1])
        after == i <= Len(s) /\ IsWordChar(s[i])
    IN before # after

\* Regex::replace_all of the pattern (?i)\bpat\b by rep
RECURSIVE ReplaceAll(_, _, _, _)
ReplaceAll(s, i, pat, rep) ==
    IF i > Len(s) THEN <<>>
    ELSE IF /\ MatchesAt(s, i, pat)
            /\ WordBoundary(s, i)
            /\ WordBoundary(s, i + Len(pat))
         THEN rep \o ReplaceAll(s, i + Len(pat), pat, rep)
         ELSE <<s[i]>> \o ReplaceAll(s, i + 1, pat, rep)

\* str::contains(&str) on the lowercased text
ContainsLower(s, w) == \E i \in 1..Len(s) : MatchesAt(s, i, w)

\* needs_expansion: the slang words and month abbreviations
needs_expansion(s) ==
    \E w \in
    {<<103, 111, 110, 110, 97>>,
     <<119, 97, 110, 110, 97>>,
     <<103, 111, 116, 116, 97>>,
     <<100, 117, 110, 110, 111>>,
     <<103, 105, 109, 109, 101>>,
     <<108, 101, 109, 109, 101>>,
     <<106, 97, 110, 46>>,
     <<102, 101, 98, 46>>,
     <<109, 97, 114, 46>>,
     <<97, 112, 114, 46>>,
     <<106, 117, 110, 46>>,
     <<106, 117, 108, 46>>,
     <<97, 117, 103, 46>>,
     <<115, 101, 112, 46>>,
     <<111, 99, 116, 46>>,
     <<110, 111, 118, 46>>,
     <<100, 101, 99, 46>>} :
        ContainsLower(s, w)

\* fix_contractions
fix_contractions(s) ==
    IF ~Contains(s, 39) /\ ~Contains(s, 8217) /\ ~needs_expansion(s) THEN s
    ELSE LET straight == ReplaceAll(s, 1, <<100, 111, 110, 39, 116>>, <<100, 111, 32, 110, 111, 116>>)
         IN ReplaceAll(straight, 1, <<100, 111, 110, 8217, 116>>, <<100, 111, 32, 110, 111, 116>>)

(***************************************************************************)
(* Configuration (config.rs).                                              *)
(***************************************************************************)
Languages == {"Auto", "En", "Zh", "Ja"}

Operators == {"Tn", "Itn"}

\* the boolean fields of NormalizerConfig
Toggles ==
    {"fix_contractions", "traditional_to_simple", "full_to_half",
     "remove_interjections", "remove_puncts", "tag_oov", "enable_0_to_9",
     "remove_erhua"}

\* NormalizerConfig with the toggles of set on enabled
Config(l, op, on) ==
    [lang |-> l, operator |-> op,
     fix_contractions |-> "fix_contractions" \in on,
     traditional_to_simple |-> "traditional_to_simple" \in on,
     full_to_half |-> "full_to_half" \in on,
     remove_interjections |-> "remove_interjections" \in on,
     remove_puncts |-> "remove_puncts" \in on,
     tag_oov |-> "tag_oov" \in on,
     enable_0_to_9 |-> "enable_0_to_9" \in on,
     remove_erhua |-> "remove_erhua" \in on]

\* NormalizerConfig::default
DefaultConfig == Config("Auto", "Tn", {})

\* the configurations of the model: every language and operator, with at
\* most MaxToggles toggles enabled
Configs ==
    {Config(l, op, on) :
        l \in Languages, op \in Operators,
        on \in {t \in SUBSET Toggles : Cardinality(t) <= MaxToggles}}

(***************************************************************************)
(* Language detection and the normalization gate (normalizer.rs).          *)
(***************************************************************************)
\* the scan with kana met after an ideograph no longer deciding
RECURSIVE detect_scan_cjk_first(_, _, _, _)
detect_scan_cjk_first(s, i, has_cjk, has_alpha) ==
    IF i > Len(s)
    THEN IF has_cjk THEN "Zh"
         ELSE IF s # <<>> /\ ~has_alpha THEN "Zh"
         ELSE "En"
    ELSE IF (s[i] \in 12352..12447 \/ s[i] \in 12448..12543) /\ ~has_cjk
         THEN "Ja"
    ELSE detect_scan_cjk_first(s, i + 1,
                               has_cjk \/ s[i] \in 19968..40959,
                               has_alpha \/ IsAsciiAlphabetic(s[i]))

\* the scan of detect_language from position i (from 1) on
RECURSIVE detect_scan(_, _, _, _)
detect_scan(s, i, has_cjk, has_alpha) ==
    IF i > Len(s)
    THEN IF has_cjk THEN "Zh"
         ELSE IF s # <<>> /\ ~has_alpha THEN "Zh"
         ELSE "En"
    ELSE IF s[i] \in 12352..12447 \/ s[i] \in 12448..12543 THEN "Ja"
    ELSE detect_scan(s, i + 1,
                     has_cjk \/ s[i] \in 19968..40959,
                     has_alpha \/ IsAsciiAlphabetic(s[i]))

\* Normalizer::detect_language
detect_language(s) == detect_scan(s, 1, FALSE, FALSE)

\* should_normalize testing for erhua whatever remove_erhua says
should_normalize_any_erhua(s, operator, remove_erhua) ==
    IF operator = "Tn"
    THEN (\E i \in 1..Len(s) : IsAsciiDigit(s[i]))
         \/ Contains(s, 20799) \/ Contains(s, 20818)
    ELSE s # <<>>

\* should_normalize sending every ITN text, the empty one too, to the tagger
should_normalize_itn_always(s, operator, remove_erhua) ==
    IF operator = "Tn"
    THEN (\E i \in 1..Len(s) : IsAsciiDigit(s[i]))
         \/ (remove_erhua /\ (Contains(s, 20799) \/ Contains(s, 20818)))
    ELSE TRUE

\* Normalizer::should_normalize
should_normalize(s, operator, remove_erhua) ==
    IF operator = "Tn"
    THEN IF \E i \in 1..Len(s) : IsAsciiDigit(s[i]) THEN TRUE
         ELSE IF remove_erhua /\ (Contains(s, 20799) \/ Contains(s, 20818))
              THEN TRUE
         ELSE FALSE
    ELSE s # <<>>

\* the stages using the resolved language as it is
effective_lang_resolved(l, operator) == l

\* the language the tag, reorder and verbalize stages use
effective_lang(l, operator) ==
    IF l = "En" /\ operator = "Itn" THEN "Zh" ELSE l

\* the tagger path of Normalizer::tag, "invalid" for the catch-all arm
tag_path(l, c) ==
    IF l = "En" /\ c.operator = "Tn" THEN "en/tn/tagger.fst"
    ELSE IF l = "Zh" /\ c.operator = "Tn" THEN "zh/tn/tagger.fst"
    ELSE IF l = "Zh" /\ c.operator = "Itn"
         THEN IF c.enable_0_to_9 THEN "zh/itn/tagger_enable_0_to_9.fst"
              ELSE "zh/itn/tagger.fst"
    ELSE IF l = "Ja" /\ c.operator = "Tn" THEN "ja/tn/tagger.fst"
    ELSE IF l = "Ja" /\ c.operator = "Itn"
         THEN IF c.enable_0_to_9 THEN "ja/itn/tagger_enable_0_to_9.fst"
              ELSE "ja/itn/tagger.fst"
    ELSE "invalid"

\* verbalize without an arm for Japanese ITN
verbalize_path_no_ja_itn(l, c) ==
    IF l = "En" /\ c.operator = "Tn" THEN "en/tn/verbalizer.fst"
    ELSE IF l = "Zh" /\ c.operator = "Tn"
         THEN IF c.remove_erhua THEN "zh/tn/verbalizer_remove_erhua.fst"
              ELSE "zh/tn/verbalizer.fst"
    ELSE IF l = "Zh" /\ c.operator = "Itn" THEN "zh/itn/verbalizer.fst"
    ELSE IF l = "Ja" /\ c.operator = "Tn" THEN "ja/tn/verbalizer.fst"
    ELSE "invalid"

\* the verbalizer path of Normalizer::verbalize, "invalid" for the catch-all arm
verbalize_path(l, c) ==
    IF l = "En" /\ c.operator = "Tn" THEN "en/tn/verbalizer.fst"
    ELSE IF l = "Zh" /\ c.operator = "Tn"
         THEN IF c.remove_erhua THEN "zh/tn/verbalizer_remove_erhua.fst"
              ELSE "zh/tn/verbalizer.fst"
    ELSE IF l = "Zh" /\ c.operator = "Itn" THEN "zh/itn/verbalizer.fst"
    ELSE IF l = "Ja" /\ c.operator = "Tn" THEN "ja/tn/verbalizer.fst"
    ELSE IF l = "Ja" /\ c.operator = "Itn" THEN "ja/itn/verbalizer.fst"
    ELSE "invalid"

TaggerPaths ==
    {"en/tn/tagger.fst", "zh/tn/tagger.fst", "zh/itn/tagger.fst",
     "zh/itn/tagger_enable_0_to_9.fst", "ja/tn/tagger.fst",
     "ja/itn/tagger.fst", "ja/itn/tagger_enable_0_to_9.fst"}

VerbalizerPaths ==
    {"en/tn/verbalizer.fst", "zh/tn/verbalizer.fst",
     "zh/tn/verbalizer_remove_erhua.fst", "zh/itn/verbalizer.fst",
     "ja/tn/verbalizer.fst", "ja/itn/verbalizer.fst"}

ToplevelPaths ==
    {"traditional_to_simple.fst", "full_to_half.fst",
     "remove_interjections.fst", "remove_puncts.fst", "tag_oov.fst"}

\* the logical paths the pipeline can request
Paths == TaggerPaths \cup VerbalizerPaths \cup ToplevelPaths

(***************************************************************************)
(* The environment of the pipeline: the artifact files and the library's   *)
(* answers.                                                                *)
(***************************************************************************)
\* what from_file finds at a path
FileStates == {"ok", "missing", "corrupt"}

\* the files are fixed: a path found once is found the same way again
FoundChoices(f, path) == IF f[path] = "unknown" THEN FileStates ELSE {f[path]}

\* output label sequences of a best path for input t: the input echoed, a
\* byte that is no UTF-8, a code point label, a digit between blanks, a
\* lone brace, an entity in token notation with its fields out of order
OutLabels(t) ==
    {Utf8Encode(t), <<255>>, <<19968>>, <<32, 49, 32>>, <<123>>,
     <<100, 97, 116, 101, 32, 123, 32, 100, 97, 121, 58, 32, 34, 49, 34, 32, 121, 101, 97, 114, 58, 32, 34, 50, 34, 32, 125>>}

\* the library's answers for input t
Outcomes(t) ==
    {LibOutcome(k, <<>>) : k \in OutcomeKinds \ {"path"}}
    \cup {LibOutcome("path", ls) : ls \in OutLabels(t)}

(***************************************************************************)
(* The automaton cache, FstCache (normalizer.rs).                          *)
(***************************************************************************)
\* from_file reporting every failure as a missing file
from_file_not_found(found) ==
    IF found = "ok" THEN Ok(<<>>) ELSE Err("FstNotFound")

\* FstTextNormalizer::from_file
from_file(found) ==
    IF found = "missing" THEN Err("FstNotFound")
    ELSE IF found = "corrupt" THEN Err("FstLoadError")
    ELSE Ok(<<>>)

\* get_or_load keeping one entry: an insertion evicts the others
get_or_load_single(c, path, found) ==
    IF ~(path \in c)
    THEN LET loaded == from_file(found)
         IN IF loaded.ok
            THEN [cache |-> {path}, res |-> loaded, read |-> TRUE]
            ELSE [cache |-> c, res |-> loaded, read |-> TRUE]
    ELSE [cache |-> c, res |-> Ok(<<>>), read |-> FALSE]

\* get_or_load loading the file whether or not the path is cached
get_or_load_always(c, path, found) ==
    LET loaded == from_file(found)
    IN IF loaded.ok
       THEN [cache |-> c \cup {path}, res |-> loaded, read |-> TRUE]
       ELSE [cache |-> c, res |-> loaded, read |-> TRUE]

\* get_or_load inserting the path before it knows that the load succeeded
get_or_load_insert_first(c, path, found) ==
    IF ~(path \in c)
    THEN [cache |-> c \cup {path}, res |-> from_file(found), read |-> TRUE]
    ELSE [cache |-> c, res |-> Ok(<<>>), read |-> FALSE]

\* FstCache::get_or_load: the cache after the request, its result and
\* whether from_file has read the file
get_or_load(c, path, found) ==
    IF ~(path \in c)
    THEN LET loaded == from_file(found)
         IN IF loaded.ok
            THEN [cache |-> c \cup {path}, res |-> loaded, read |-> TRUE]
            ELSE [cache |-> c, res |-> loaded, read |-> TRUE]
    ELSE [cache |-> c, res |-> Ok(<<>>), read |-> FALSE]

\* `let fst = self.cache.get_or_load(path)?; fst.normalize(&text)?` on the
\* stage state st (text, cache, files, requests, result so far)
apply_cached(path, st, found, oc) ==
    LET got == get_or_load(st.cache, path, found)
        seen == IF got.read THEN [st.fs EXCEPT ![path] = found] ELSE st.fs
        reqs == Append(st.requests, path)
        read == IF got.read
                THEN [st.loads EXCEPT ![path].reads = @ + 1]
                ELSE [st.loads EXCEPT ![path].hits = @ + 1]
    IN IF ~got.res.ok
       THEN [st EXCEPT !.cache = got.cache, !.fs = seen, !.requests = reqs,
                       !.loads = read, !.res = got.res, !.failure = got.res]
       ELSE LET applied == fst_normalize(st.text, oc)
            IN [st EXCEPT !.cache = got.cache, !.fs = seen, !.requests = reqs,
                          !.loads = read, !.res = applied,
                          !.failure = IF applied.ok THEN st.failure ELSE applied,
                          !.text = IF applied.ok THEN applied.val ELSE st.text]

\* every way the request and the application can go
Applications(path, st) ==
    {apply_cached(path, st, found, oc) :
        found \in FoundChoices(st.fs, path), oc \in Outcomes(st.text)}

\* the automata of ps applied in order, stopping at the first error
RECURSIVE RunChain(_, _)
RunChain(ps, st) ==
    IF ps = <<>> THEN {st}
    ELSE UNION {IF s1.res.ok THEN RunChain(Tail(ps), s1) ELSE {s1} :
                   s1 \in Applications(Head(ps), st)}

\* the paths preprocess requests under configuration c, in order
preprocess_paths(c) ==
    IF c.traditional_to_simple THEN <<"traditional_to_simple.fst">> ELSE <<>>

\* the paths of postprocess with tag_oov requested first
postprocess_paths_oov_first(c) ==
    (IF c.tag_oov THEN <<"tag_oov.fst">> ELSE <<>>)
    \o (IF c.full_to_half THEN <<"full_to_half.fst">> ELSE <<>>)
    \o (IF c.remove_interjections THEN <<"remove_interjections.fst">> ELSE <<>>)
    \o (IF c.remove_puncts THEN <<"remove_puncts.fst">> ELSE <<>>)

\* the paths postprocess requests under configuration c, in order
postprocess_paths(c) ==
    (IF c.full_to_half THEN <<"full_to_half.fst">> ELSE <<>>)
    \o (IF c.remove_interjections THEN <<"remove_interjections.fst">> ELSE <<>>)
    \o (IF c.remove_puncts THEN <<"remove_puncts.fst">> ELSE <<>>)
    \o (IF c.tag_oov THEN <<"tag_oov.fst">> ELSE <<>>)

\* the stage state of the running call
StageState ==
    [text |-> text, cache |-> cache, fs |-> fs, loads |-> loads,
     requests |-> requests, res |-> Ok(<<>>), failure |-> failure]

\* the stage state at the start of a call with text t on the Normalizer as
\* it is: new, its cache empty, wherever no call has been made
FreshState(t) == [StageState EXCEPT !.text = t]

\* preprocess without the trim
preprocess_no_trim(st, c) == RunChain(preprocess_paths(c), st)

\* Normalizer::preprocess
preprocess(st, c) ==
    RunChain(preprocess_paths(c), [st EXCEPT !.text = Trim(st.text)])

\* Normalizer::tag and Normalizer::verbalize for the automaton at path
tagged_stage(st, path) ==
    IF path = "invalid" THEN {[st EXCEPT !.res = Err("InvalidLanguage")]}
    ELSE {IF s1.res.ok THEN [s1 EXCEPT !.text = Trim(s1.text)] ELSE s1 :
             s1 \in Applications(path, st)}

\* Normalizer::reorder
reorder_stage(st, l, operator) ==
    LET res == reorder(TokenParser_new(l, operator), st.text)
    IN IF res.ok THEN [st EXCEPT !.text = res.val] ELSE [st EXCEPT !.res = res]

\* Normalizer::postprocess
postprocess(st, c) ==
    {IF s1.res.ok THEN [s1 EXCEPT !.text = Trim(s1.text)] ELSE s1 :
        s1 \in RunChain(postprocess_paths(c), st)}

(***************************************************************************)
(* The pipeline: Normalizer::normalize_with_config, one action per stage.  *)
(***************************************************************************)
\* the characters of the input texts: blank, digit, letter, apostrophe,
\* the two erhua characters (CJK ideographs), a hiragana
Alphabet == {32, 49, 97, 39, 20799, 20818, 12371}

\* the input texts of the model: the short texts, "don't", "don’t 1" and
\* " 1 "
Inputs ==
    TextsUpTo(Alphabet, MaxLen)
    \cup {<<100, 111, 110, 39, 116>>, <<100, 111, 110, 8217, 116, 32, 49>>,
          <<32, 49, 32>>}

\* parser: no loop iteration taken yet
NoStep == [kind |-> "none", step |-> 0, outer |-> 0, iters |-> 0]

\* the parts of the model that are not running
PipelineOff ==
    /\ pc = "off" /\ config = DefaultConfig
    /\ input = <<>> /\ cfg = DefaultConfig
    /\ text = <<>> /\ lang = "Auto" /\ cache = {}
    /\ fs = [p \in Paths |-> "unknown"]
    /\ loads = [p \in Paths |-> [reads |-> 0, hits |-> 0]] /\ calls = 0
    /\ requests = <<>> /\ ran = <<>> /\ gateText = <<>> /\ result = NoResult
    /\ failure = NoResult

ApplierOff == aInput = <<>> /\ aOutcome = "none" /\ aResult = NoResult

DetectOff == dText = <<>> /\ dLang = "none"

ParserOff ==
    /\ pOrders = [lang |-> "Auto", operator |-> "Tn"] /\ pChars = <<>>
    /\ pState = ParseInit
    /\ pLast = NoStep /\ pResult = NoResult /\ pAgain = NoResult

CallOff ==
    /\ nInput = [pre |-> <<>>, text |-> <<>>, post |-> <<>>, cfg |-> DefaultConfig]
    /\ nResults = [bare |-> {}, padded |-> {}, done |-> FALSE]

\* Normalizer::with_defaults: the default configuration stored, an empty
\* cache, no call running
Init ==
    /\ pc = "idle" /\ config = DefaultConfig
    /\ input = <<>> /\ cfg = DefaultConfig
    /\ text = <<>> /\ lang = "Auto" /\ cache = {}
    /\ fs = [p \in Paths |-> "unknown"]
    /\ loads = [p \in Paths |-> [reads |-> 0, hits |-> 0]] /\ calls = 0
    /\ requests = <<>> /\ ran = <<>> /\ gateText = <<>> /\ result = NoResult
    /\ failure = NoResult
    /\ ApplierOff /\ DetectOff /\ ParserOff /\ CallOff

\* the call returning the text it has instead of the error of a stage
Fail_best_effort(st, stage) ==
    /\ pc' = "done"
    /\ result' = Ok(st.text)
    /\ cache' = st.cache /\ fs' = st.fs /\ requests' = st.requests
    /\ loads' = st.loads /\ failure' = st.failure
    /\ ran' = Append(ran, stage)
    /\ UNCHANGED <<config, input, cfg, text, lang, gateText, calls>>

\* `?`: the call returns the error of a stage
Fail(st, stage) ==
    /\ pc' = "done"
    /\ result' = st.res
    /\ cache' = st.cache /\ fs' = st.fs /\ requests' = st.requests
    /\ loads' = st.loads /\ failure' = st.failure
    /\ ran' = Append(ran, stage)
    /\ UNCHANGED <<config, input, cfg, text, lang, gateText, calls>>

\* whether step 1 delegates to the contraction expander
fixes_contractions(c, t) == c.fix_contractions /\ Contains(t, 39)

\* a call with a text of ts under a configuration of cs, and its step 1:
\* fix English contractions
CallWith(ts, cs) ==
    /\ pc = "idle"
    /\ calls < MaxCalls
    /\ pc' = "pre"
    /\ calls' = calls + 1
    /\ \E t \in ts, c \in cs :
          /\ input' = t /\ cfg' = c
          /\ text' = IF fixes_contractions(c, t) THEN fix_contractions(t) ELSE t
          /\ ran' = IF fixes_contractions(c, t) THEN <<"fix">> ELSE <<>>
    /\ requests' = <<>> /\ gateText' = <<>> /\ result' = NoResult
    /\ failure' = NoResult
    /\ UNCHANGED <<config, lang, cache, fs, loads>>
    /\ UNCHANGED <<applyVars, detectVars, parseVars, callVars>>

\* a text that every stage works on: an apostrophe before a digit
FullInputs == {<<39, 49>>}

\* the configurations with every toggle enabled, for Chinese
FullConfigs == {Config("Zh", op, Toggles) : op \in Operators}

\* the call of a new Normalizer
Call == CallWith(Inputs, Configs) \/ CallWith(FullInputs, FullConfigs)

\* Normalizer::normalize: the call under a clone of the stored configuration
Normalize == CallWith(Inputs, {config})

\* step 2, Normalizer::preprocess: trim, then traditional_to_simple
Preprocess ==
    /\ pc = "pre"
    /\ \E st \in preprocess(StageState, cfg) :
          IF st.res.ok
          THEN /\ pc' = "detect"
               /\ text' = st.text
               /\ cache' = st.cache /\ fs' = st.fs /\ requests' = st.requests
               /\ loads' = st.loads /\ failure' = st.failure
               /\ ran' = Append(ran, "preprocess")
               /\ UNCHANGED <<config, input, cfg, lang, gateText, result, calls>>
          ELSE Fail(st, "preprocess")
    /\ UNCHANGED <<applyVars, detectVars, parseVars, callVars>>

\* step 3: resolve the language
ResolveLanguage ==
    /\ pc = "detect"
    /\ pc' = "gate"
    /\ lang' = IF cfg.lang = "Auto" THEN detect_language(text) ELSE cfg.lang
    /\ ran' = Append(ran, "detect")
    /\ UNCHANGED <<config, input, cfg, text, cache, fs, loads, calls, requests,
                   gateText, result, failure>>
    /\ UNCHANGED <<applyVars, detectVars, parseVars, callVars>>

\* step 4: tag, reorder and verbalize only if should_normalize
Gate ==
    /\ pc = "gate"
    /\ pc' = IF should_normalize(text, cfg.operator, cfg.remove_erhua)
             THEN "tag" ELSE "post"
    /\ gateText' = text
    /\ ran' = Append(ran, "gate")
    /\ UNCHANGED <<config, input, cfg, text, lang, cache, fs, loads, calls, requests,
                   result, failure>>
    /\ UNCHANGED <<applyVars, detectVars, parseVars, callVars>>

\* a stage that applies the automaton at path and trims: tag and verbalize
TaggedStage(stage, path, next) ==
    IF path = "invalid"
    THEN Fail([StageState EXCEPT !.res = Err("InvalidLanguage")], stage)
    ELSE \E st \in tagged_stage(StageState, path) :
            IF st.res.ok
            THEN /\ pc' = next
                 /\ text' = st.text
                 /\ cache' = st.cache /\ fs' = st.fs /\ requests' = st.requests
                 /\ loads' = st.loads /\ failure' = st.failure
                 /\ ran' = Append(ran, stage)
                 /\ UNCHANGED <<config, input, cfg, lang, gateText, result, calls>>
            ELSE Fail(st, stage)

\* step 4.1, Normalizer::tag
Tag ==
    /\ pc = "tag"
    /\ TaggedStage("tag", tag_path(effective_lang(lang, cfg.operator), cfg),
                   "reorder")
    /\ UNCHANGED <<applyVars, detectVars, parseVars, callVars>>

\* step 4.2, Normalizer::reorder
Reorder ==
    /\ pc = "reorder"
    /\ LET st == reorder_stage(StageState,
                               effective_lang(lang, cfg.operator), cfg.operator)
       IN IF st.res.ok
          THEN /\ pc' = "verbalize"
               /\ text' = st.text
               /\ ran' = Append(ran, "reorder")
               /\ UNCHANGED <<config, input, cfg, lang, cache, fs, loads, calls,
                              requests, gateText, result, failure>>
          ELSE Fail(st, "reorder")
    /\ UNCHANGED <<applyVars, detectVars, parseVars, callVars>>

\* step 4.3, Normalizer::verbalize
Verbalize ==
    /\ pc = "verbalize"
    /\ TaggedStage("verbalize",
                   verbalize_path(effective_lang(lang, cfg.operator), cfg),
                   "post")
    /\ UNCHANGED <<applyVars, detectVars, parseVars, callVars>>

\* step 5, Normalizer::postprocess, and the return of the call
Postprocess ==
    /\ pc = "post"
    /\ \E st \in postprocess(StageState, cfg) :
          IF st.res.ok
          THEN /\ pc' = "done"
               /\ text' = st.text
               /\ result' = Ok(st.text)
               /\ cache' = st.cache /\ fs' = st.fs /\ requests' = st.requests
               /\ loads' = st.loads /\ failure' = st.failure
               /\ ran' = Append(ran, "postprocess")
               /\ UNCHANGED <<config, input, cfg, lang, gateText, calls>>
          ELSE Fail(st, "postprocess")
    /\ UNCHANGED <<applyVars, detectVars, parseVars, callVars>>

Next ==
    \/ Call
    \/ Normalize
    \/ Preprocess
    \/ ResolveLanguage
    \/ Gate
    \/ Tag
    \/ Reorder
    \/ Verbalize
    \/ Postprocess

Spec == Init /\ [][Next]_vars

(***************************************************************************)
(* A session: several normalize calls on one Normalizer, the cache kept    *)
(* from call to call.                                                      *)
(***************************************************************************)
\* the texts of the session's calls: a digit, a letter, the empty text
SessionInputs == {<<49>>, <<97>>, <<>>}

\* the configurations of the session's calls: English and Chinese, both
\* operators, with no toggle, traditional_to_simple or enable_0_to_9
SessionConfigs ==
    {Config(l, op, on) :
        l \in {"En", "Zh"}, op \in Operators,
        on \in {{}, {"traditional_to_simple"}, {"enable_0_to_9"}}}

\* a call on the Normalizer of the session
SessionCall == CallWith(SessionInputs, SessionConfigs)

\* Normalizer::normalize on the Normalizer of the session
SessionNormalize == CallWith(SessionInputs, {config})

\* the call has returned: its locals are gone, the Normalizer and its cache
\* stay
Return ==
    /\ pc = "done"
    /\ pc' = "idle"
    /\ input' = <<>> /\ cfg' = DefaultConfig /\ text' = <<>> /\ lang' = "Auto"
    /\ requests' = <<>> /\ ran' = <<>> /\ gateText' = <<>>
    /\ result' = NoResult /\ failure' = NoResult
    /\ UNCHANGED <<config, cache, fs, loads, calls>>
    /\ UNCHANGED <<applyVars, detectVars, parseVars, callVars>>

NextSession ==
    \/ SessionCall
    \/ SessionNormalize
    \/ Preprocess
    \/ ResolveLanguage
    \/ Gate
    \/ Tag
    \/ Reorder
    \/ Verbalize
    \/ Postprocess
    \/ Return

SpecSession == Init /\ [][NextSession]_vars

(***************************************************************************)
(* The call as a function: what normalize_with_config can return for a     *)
(* text and a configuration on a new Normalizer, over every state of the   *)
(* files and every answer of the library.                                  *)
(***************************************************************************)
\* the states a call can end in when it is before stage `stage` in stage
\* state st with the resolved language l
RECURSIVE call_from(_, _, _, _)
call_from(stage, st, l, c) ==
    IF ~st.res.ok \/ stage = "done" THEN {st}
    ELSE IF stage = "pre"
    THEN UNION {call_from("detect", s, l, c) : s \in preprocess(st, c)}
    ELSE IF stage = "detect"
    THEN call_from("gate", st,
                   IF c.lang = "Auto" THEN detect_language(st.text) ELSE c.lang,
                   c)
    ELSE IF stage = "gate"
    THEN call_from(IF should_normalize(st.text, c.operator, c.remove_erhua)
                   THEN "tag" ELSE "post", st, l, c)
    ELSE IF stage = "tag"
    THEN UNION {call_from("reorder", s, l, c) :
                   s \in tagged_stage(
                            st, tag_path(effective_lang(l, c.operator), c))}
    ELSE IF stage = "reorder"
    THEN call_from("verbalize",
                   reorder_stage(st, effective_lang(l, c.operator), c.operator),
                   l, c)
    ELSE IF stage = "verbalize"
    THEN UNION {call_from("post", s, l, c) :
                   s \in tagged_stage(
                            st, verbalize_path(effective_lang(l, c.operator), c))}
    ELSE UNION {call_from("done", s, l, c) : s \in postprocess(st, c)}

\* Normalizer::normalize_with_config: the values a call can return
normalize_with_config(t, c) ==
    LET fixed == IF fixes_contractions(c, t) THEN fix_contractions(t) ELSE t
    IN {IF st.res.ok THEN Ok(st.text) ELSE st.res :
           st \in call_from("pre", FreshState(fixed), c.lang, c)}

\* whitespace put around a text: blanks and tabs
PadChars == {32, 9}

Pads == TextsUpTo(PadChars, MaxPad)

\* the texts of the calls compared: empty, a digit, a letter, an erhua
\* character, a digit and a letter with a blank between
CallTexts == {<<>>, <<49>>, <<97>>, <<20799>>, <<49, 32, 97>>}

\* the configurations of the calls compared, fix_contractions off
CallConfigs ==
    SessionConfigs
    \cup {Config("Auto", op, on) :
             op \in Operators, on \in {{}, {"remove_erhua"}, {"tag_oov"}}}

InitCall ==
    /\ PipelineOff /\ ApplierOff /\ DetectOff /\ ParserOff
    /\ nInput \in [pre : Pads, text : CallTexts, post : Pads, cfg : CallConfigs]
    /\ nResults = [bare |-> {}, padded |-> {}, done |-> FALSE]

\* normalize_with_config on the text bare and on the text padded
NormalizeBoth ==
    /\ ~nResults.done
    /\ nResults' =
          [bare |-> normalize_with_config(nInput.text, nInput.cfg),
           padded |-> normalize_with_config(
                          nInput.pre \o nInput.text \o nInput.post, nInput.cfg),
           done |-> TRUE]
    /\ UNCHANGED nInput
    /\ UNCHANGED <<pipeVars, applyVars, detectVars, parseVars>>

NextCall == NormalizeBoth

SpecCall == InitCall /\ [][NextCall]_vars

(***************************************************************************)
(* The applier alone: FstTextNormalizer::normalize on an input and an      *)
(* answer of the library.                                                  *)
(***************************************************************************)
\* the characters of the applier's inputs: a letter, a blank, an ideograph
ApplyAlphabet == {97, 32, 20320}

\* output labels: epsilon, the byte of a letter, the three UTF-8 bytes of an
\* ideograph, a byte that starts no UTF-8 sequence, a code point label and
\* a surrogate label
ApplyLabels == {0, 97, 228, 189, 160, 255, 20320, 55296}

ApplyOutcomes ==
    {LibOutcome(k, <<>>) : k \in OutcomeKinds \ {"path"}}
    \cup {LibOutcome("path", ls) : ls \in TextsUpTo(ApplyLabels, MaxLabels)}

InitApply ==
    /\ PipelineOff /\ DetectOff /\ ParserOff /\ CallOff
    /\ aInput \in TextsUpTo(ApplyAlphabet, MaxApplyLen)
    /\ aOutcome \in ApplyOutcomes
    /\ aResult = NoResult

\* FstTextNormalizer::normalize
Apply ==
    /\ aResult = NoResult
    /\ aResult' = fst_normalize(aInput, aOutcome)
    /\ UNCHANGED <<aInput, aOutcome>>
    /\ UNCHANGED <<pipeVars, detectVars, parseVars, callVars>>

NextApply == Apply

SpecApply == InitApply /\ [][NextApply]_vars

(***************************************************************************)
(* Language detection alone: Normalizer::detect_language on a text.        *)
(***************************************************************************)
\* the characters at the edges of the ranges detect_language tests: around
\* hiragana and katakana (U+3040..U+30FF), around the CJK ideographs
\* (U+4E00..U+9FFF), around the ASCII letters, a digit and a blank
DetectAlphabet ==
    {12351, 12352, 12447, 12448, 12543, 12544, 19967, 19968, 40959, 40960,
     64, 65, 90, 91, 96, 97, 122, 123, 49, 32}

InitDetect ==
    /\ PipelineOff /\ ApplierOff /\ ParserOff /\ CallOff
    /\ dText \in TextsUpTo(DetectAlphabet, MaxDetectLen)
    /\ dLang = "none"

\* Normalizer::detect_language
Detect ==
    /\ dLang = "none"
    /\ dLang' = detect_language(dText)
    /\ UNCHANGED dText
    /\ UNCHANGED <<pipeVars, applyVars, parseVars, callVars>>

NextDetect == Detect

SpecDetect == InitDetect /\ [][NextDetect]_vars

(***************************************************************************)
(* The token parser alone: TokenParser::reorder on a text, parse taken one *)
(* loop iteration at a time, then reorder applied to its own result.       *)
(***************************************************************************)
\* the characters of the free texts: a letter, blank, the braces, colon,
\* quote, backslash and a digit
ParseAlphabet == {97, 32, 123, 125, 58, 34, 92, 49}

\* entity names: one of the tables ("date") and one of none ("x")
TokenNames == {str_date, <<120>>}

\* keys: in the Chinese and English date orders (day, year), the marker
\* preserve_order, and a key the date orders do not list (value)
FieldKeys == {str_day, str_year, str_preserve_order, str_value}

\* values: "1", "true", a backslash, an escaped quote
FieldValues == {<<49>>, str_true, <<92>>, <<92, 34>>}

\* ` key: "value"`
FieldText(k, v) == <<32>> \o k \o <<58, 32, 34>> \o v \o <<34>>

\* the texts of at most n fields
RECURSIVE FieldTexts(_)
FieldTexts(n) ==
    IF n = 0 THEN {<<>>}
    ELSE LET shorter == FieldTexts(n - 1)
         IN shorter \cup {f \o FieldText(k, v) :
                             f \in shorter, k \in FieldKeys, v \in FieldValues}

\* one entity: closed by ` }`, cut after the last field, or cut before the
\* closing quote of the last value
TokenTexts ==
    {n \o <<32, 123>> \o f \o e :
        n \in TokenNames, f \in FieldTexts(MaxFields), e \in {<<32, 125>>, <<>>}}
    \cup {n \o <<32, 123>> \o SubSeq(f, 1, Len(f) - 1) :
             n \in TokenNames, f \in FieldTexts(MaxFields) \ {<<>>}}

\* two entities separated by a blank
TokenPairs ==
    LET small == {n \o <<32, 123>> \o f \o <<32, 125>> :
                     n \in {str_date, <<120>>},
                     f \in {<<>>, FieldText(str_day, <<49>>),
                            FieldText(str_year, <<49>>)}}
    IN {a \o <<32>> \o b : a \in small, b \in small}

\* `money { currency: "1" value: "2" }` and the same with a third field
MoneyTexts ==
    LET body == FieldText(str_currency, <<49>>) \o FieldText(str_value, <<50>>)
    IN {str_money \o <<32, 123>> \o body \o <<32, 125>>,
        str_money \o <<32, 123>> \o FieldText(str_day, <<51>>) \o body
            \o <<32, 125>>}

\* `date{` followed by a free text: an entity of the tables with a
\* malformed body
MalformedDates ==
    {str_date \o <<123>> \o t : t \in TextsUpTo(ParseAlphabet, MaxParseLen)}

\* the texts given to reorder
ParserInputs ==
    TextsUpTo(ParseAlphabet, MaxParseLen)
    \cup TokenTexts \cup TokenPairs \cup MoneyTexts \cup MalformedDates

\* the parsers: TokenParser::new for a language and an operator
ParserKinds ==
    [lang : {"En", "Zh", "Ja"}, operator : Operators]

\* the table of the parser under test
POrders == TokenParser_new(pOrders.lang, pOrders.operator)

InitParse ==
    /\ PipelineOff /\ ApplierOff /\ DetectOff /\ CallOff
    /\ pOrders \in ParserKinds
    /\ pChars \in ParserInputs
    /\ pState = [ParseInit EXCEPT !.phase = "entry"]
    /\ pLast = NoStep /\ pResult = NoResult /\ pAgain = NoResult

\* reorder up to the call of parse: the empty and the brace-less input
\* return at once
ReorderEntry ==
    /\ pState.phase = "entry"
    /\ pResult' = reorder_early(pChars)
    /\ pState' = IF reorder_early(pChars) # NoResult
                 THEN [pState EXCEPT !.phase = "returned"]
                 ELSE ParseInit
    /\ UNCHANGED <<pOrders, pChars, pLast, pAgain>>
    /\ UNCHANGED <<pipeVars, applyVars, detectVars, callVars>>

\* parse: the outer loop from its head to the key-value loop
ParseOuter ==
    /\ pState.phase = "outer"
    /\ pState' = OuterStep(pChars, pState)
    /\ pLast' = [kind |-> "outer", step |-> pState.index,
                 outer |-> pState.index, iters |-> pLast.iters + 1]
    /\ UNCHANGED <<pOrders, pChars, pResult, pAgain>>
    /\ UNCHANGED <<pipeVars, applyVars, detectVars, callVars>>

\* parse: one iteration of the key-value loop
ParseInner ==
    /\ pState.phase = "inner"
    /\ pState' = InnerStep(pChars, pState)
    /\ pLast' = [pLast EXCEPT !.kind = "inner", !.step = pState.index,
                              !.iters = pLast.iters + 1]
    /\ UNCHANGED <<pOrders, pChars, pResult, pAgain>>
    /\ UNCHANGED <<pipeVars, applyVars, detectVars, callVars>>

\* reorder after parse: the tokens re-serialized, or the input on failure
ReorderFinish ==
    /\ pState.phase \in {"done", "err"}
    /\ pResult = NoResult
    /\ pResult' = reorder_result(POrders, pChars,
                      [ok |-> pState.phase = "done", tokens |-> pState.tokens,
                       errchar |-> pState.errchar, errpos |-> pState.errpos])
    /\ UNCHANGED <<pOrders, pChars, pState, pLast, pAgain>>
    /\ UNCHANGED <<pipeVars, applyVars, detectVars, callVars>>

\* reorder applied to the text reorder returned
ReorderAgain ==
    /\ pResult # NoResult
    /\ pAgain = NoResult
    /\ pAgain' = reorder(POrders, pResult.val)
    /\ UNCHANGED <<pOrders, pChars, pState, pLast, pResult>>
    /\ UNCHANGED <<pipeVars, applyVars, detectVars, callVars>>

NextParse ==
    \/ ReorderEntry
    \/ ParseOuter
    \/ ParseInner
    \/ ReorderFinish
    \/ ReorderAgain

SpecParse == InitParse /\ [][NextParse]_vars

(***************************************************************************)
(* Properties of the pipeline (Spec).                                      *)
(***************************************************************************)
\* the call has executed the stage
Ran(stage) == \E i \in 1..Len(ran) : ran[i] = stage

\* the paths requested in this call
Requested == {requests[i] : i \in 1..Len(requests)}

\* the toggles that make the call request a top-level automaton
AutomatonToggleOn(c) ==
    \/ c.traditional_to_simple \/ c.full_to_half \/ c.remove_interjections
    \/ c.remove_puncts \/ c.tag_oov

\* C1 as stated: for every configuration, normalize of the empty string
\* returns the empty string as a success value.
C1_EmptyAlwaysOk ==
    (pc = "done" /\ input = <<>>) => result = Ok(<<>>)

\* C1 as amended: normalize of the empty string returns Ok("") whenever
\* every automaton the enabled toggles request loads; when the file of one
\* is missing or malformed it returns that load error.  It never returns
\* another text or another error, and requests no tagger or verbalizer.
C1_EmptyInput ==
    (pc = "done" /\ input = <<>>) =>
        /\ Requested \subseteq ToplevelPaths
        /\ IF \A p \in Requested : fs[p] = "ok"
           THEN result = Ok(<<>>)
           ELSE LET last == requests[Len(requests)]
                IN /\ fs[last] # "ok"
                   /\ result = Err(IF fs[last] = "missing" THEN "FstNotFound"
                                   ELSE "FstLoadError")

\* C1's case: the empty string normalized under ITN with an automaton
\* requested, loaded and applied
C1_Witness ==
    /\ pc = "done" /\ input = <<>> /\ result = Ok(<<>>)
    /\ cfg.operator = "Itn" /\ requests # <<>>

\* a digit occurs in the text
HasDigit(t) == \E i \in 1..Len(t) : t[i] \in 48..57

\* C2 as stated: under TN with remove_erhua disabled a text without an
\* ASCII digit is returned unchanged.
C2_NoDigitIdentity ==
    (pc = "done" /\ cfg.operator = "Tn" /\ ~cfg.remove_erhua /\ ~HasDigit(input))
        => result = Ok(input)

\* C2 as amended: under TN with remove_erhua disabled, no automaton toggle
\* enabled and no contraction fix taking place (fix_contractions disabled,
\* or no apostrophe in the text), a text without an ASCII digit is
\* returned with its leading and trailing whitespace trimmed and otherwise
\* unchanged, and no automaton is requested.
C2_NoDigitTrimmed ==
    (/\ pc = "done" /\ cfg.operator = "Tn" /\ ~cfg.remove_erhua
     /\ ~HasDigit(input) /\ ~AutomatonToggleOn(cfg)
     /\ ~(cfg.fix_contractions /\ 39 \in {input[i] : i \in 1..Len(input)}))
        => /\ result = Ok(Trim(input))
           /\ requests = <<>>

\* C2's case: an erhua character normalized under TN with remove_erhua
\* disabled comes back as it went in
C2_Witness ==
    /\ pc = "done" /\ cfg.operator = "Tn" /\ ~cfg.remove_erhua
    /\ ~AutomatonToggleOn(cfg)
    /\ input = <<20799>> /\ result = Ok(input)

(***************************************************************************)
(* Properties of the applier (SpecApply).                                  *)
(***************************************************************************)
\* C3: applied to a non-empty text for which the composed automaton or
\* the best path has no states ("no match"), normalize returns Ok with
\* the input unchanged, never an error.
C3_NoMatchPassThrough ==
    (/\ aResult # NoResult /\ aInput # <<>>
     /\ aOutcome.kind \in {"compose_empty", "sp_empty"})
        => aResult = Ok(aInput)

\* C3's case: the best path of a non-ASCII input has no states and the
\* input is returned
C3_Witness ==
    /\ aOutcome.kind = "sp_empty" /\ aInput = <<20320, 97>>
    /\ aResult = Ok(aInput)

(***************************************************************************)
(* Properties of the token parser (SpecParse).                             *)
(***************************************************************************)
\* reorder has parsed the text and re-serialized the tokens
Reserialized == pResult # NoResult /\ pState.phase = "done"

\* the (key, value) pairs of a parsed token
Pairs(t) == {<<k, t.members[k]>> : k \in DOMAIN t.members}

\* the (key, value) pairs to_string_with_order writes for a token
EmittedPairs(t, orders) ==
    LET ks == emitted_keys(t, orders)
    IN {<<ks[i], t.members[ks[i]]>> : i \in 1..Len(ks)}

\* C4 as stated: every token reorder parses is re-serialized with exactly
\* the (key, value) pairs it has, for every table and every entity type,
\* and the text returned is the tokens so written.
C4_PairsPreserved ==
    Reserialized =>
        /\ \A i \in 1..Len(pState.tokens) :
              EmittedPairs(pState.tokens[i], POrders) = Pairs(pState.tokens[i])
        /\ pResult = Ok(JoinSpace([i \in 1..Len(pState.tokens) |->
               to_string_with_order(pState.tokens[i], POrders)]))

\* every token parsed has an entity type of the active table
AllListed ==
    /\ pState.tokens # <<>>
    /\ \A i \in 1..Len(pState.tokens) : pState.tokens[i].name \in DOMAIN POrders

\* C5 as stated: for a text whose tokens have an entity type listed in the
\* active table, reorder applied to the result of reorder returns that
\* result.
C5_Idempotent ==
    (pAgain # NoResult /\ Reserialized /\ AllListed) => pAgain = pResult

\* C6: reorder returns a success value for every text, the input itself
\* whenever parse fails; applied to its own result it succeeds again.
C6_ParseFailureRecovered ==
    /\ pResult # NoResult =>
          /\ pResult.ok
          /\ pState.phase = "err" => pResult = Ok(pChars)
    /\ pAgain # NoResult => pAgain.ok

\* C6's case: parse has failed on an unexpected character and reorder has
\* returned the input
C6_Witness ==
    /\ pState.phase = "err" /\ pState.errchar = 123 /\ pState.errpos = 2
    /\ pChars = <<97, 125, 123>>
    /\ pResult = Ok(pChars)

\* the text is empty or holds whitespace only
IsBlank(t) == \A i \in 1..Len(t) : IsWhitespace(t[i])

\* C7 as stated: a text that contains no '{' is returned verbatim,
\* whitespace-only texts included.
C7_NoBraceVerbatim ==
    (pResult # NoResult /\ ~Contains(pChars, 123)) => pResult = Ok(pChars)

\* C7 as amended: a text that contains no '{' and is not blank is returned
\* verbatim, leading and trailing whitespace included, without a parse;
\* an empty or whitespace-only text is returned as the empty text.
C7_NoBraceVerbatimOrBlank ==
    (pResult # NoResult /\ ~Contains(pChars, 123)) =>
        /\ pResult = IF IsBlank(pChars) THEN Ok(<<>>) ELSE Ok(pChars)
        /\ pState.phase = "returned"

\* C7's case: a brace-less text with outer blanks comes back untrimmed
C7_Witness ==
    /\ pChars = <<32, 97, 32>> /\ pResult = Ok(pChars)
    /\ pState.phase = "returned"

\* C8: an iteration of the key-value loop that stays in the loop has
\* advanced the position; an iteration of the entity loop that returns to
\* the head of the loop has advanced it; the iterations of a parse number
\* at most twice the characters of the text plus one.
C8_EveryIterationAdvances ==
    /\ (pLast.kind = "inner" /\ pState.phase = "inner")
          => pState.index > pLast.step
    /\ (pLast.kind = "outer" /\ pState.phase = "inner")
          => pState.index > pLast.step
    /\ (pLast.kind = "inner" /\ pState.phase = "outer")
          => pState.index > pLast.outer
    /\ pState.index <= Len(pChars)
    /\ pLast.iters <= 2 * Len(pChars) + 1

\* C8's case: the key-value loop has met ':' where a key should start and
\* skipped it
C8_Witness ==
    /\ pChars = <<97, 123, 58>>
    /\ pLast.kind = "inner" /\ pLast.step = 2
    /\ pState.phase = "inner" /\ pState.index = 3

(***************************************************************************)
(* Properties of language detection (SpecDetect).                          *)
(***************************************************************************)
\* some code point of the text lies in lo..hi
AnyIn(t, lo, hi) == \E i \in 1..Len(t) : t[i] >= lo /\ t[i] <= hi

\* C9: a text is classified Japanese if any code point is in
\* U+3040..U+30FF, wherever it stands; otherwise Chinese if any code point
\* is in U+4E00..U+9FFF; otherwise Chinese if the text is non-empty and has
\* no ASCII letter; otherwise English, the empty text included.
C9_DetectLanguage ==
    dLang # "none" =>
        dLang = IF AnyIn(dText, 12352, 12543) THEN "Ja"
                ELSE IF AnyIn(dText, 19968, 40959) THEN "Zh"
                ELSE IF dText # <<>>
                        /\ ~(AnyIn(dText, 65, 90) \/ AnyIn(dText, 97, 122))
                     THEN "Zh"
                ELSE "En"

\* C9's case: katakana after an ideograph is classified Japanese
C9_Witness ==
    dText = <<19968, 12543>> /\ dLang = "Ja"

(***************************************************************************)
(* The normalization gate of the pipeline (Spec).                          *)
(***************************************************************************)
\* the gate as the claim words it: for TN a digit, or remove_erhua and an
\* erhua character; for ITN a non-empty text
GateHolds(c, t) ==
    IF c.operator = "Tn"
    THEN HasDigit(t)
         \/ (c.remove_erhua /\ \E i \in 1..Len(t) : t[i] \in {20799, 20818})
    ELSE Len(t) > 0

\* the call has ended with the error of the stage
StageFailed(stage) ==
    pc = "done" /\ ~result.ok /\ ran[Len(ran)] = stage

\* a tagger or verbalizer automaton has been requested
EntityRequested ==
    Requested \cap (TaggerPaths \cup VerbalizerPaths) # {}

\* C10 as stated: in a call that has reached the gate, the tag, reorder
\* and verbalize stages all run if and only if the gate holds on the
\* preprocessed text; when it does not hold no tagger or verbalizer
\* automaton is requested.
C10_StagesIffGate ==
    (pc = "done" /\ Ran("gate")) =>
        /\ (Ran("tag") /\ Ran("reorder") /\ Ran("verbalize"))
              <=> GateHolds(cfg, gateText)
        /\ ~GateHolds(cfg, gateText) => ~EntityRequested

\* C10 as amended: the tag stage runs if and only if the gate holds on the
\* preprocessed text; reorder and verbalize run if and only if the gate
\* holds and the stage before returned no error, so in a call that
\* succeeds the three run exactly when the gate holds.  When the gate
\* does not hold no tagger or verbalizer automaton is requested and
\* postprocess follows the gate at once.
C10_GateDecides ==
    /\ pc \in {"tag", "reorder", "verbalize"} => GateHolds(cfg, gateText)
    /\ (pc = "done" /\ Ran("gate")) =>
          /\ Ran("tag") <=> GateHolds(cfg, gateText)
          /\ Ran("reorder") <=>
                (GateHolds(cfg, gateText) /\ ~StageFailed("tag"))
          /\ Ran("verbalize") <=> Ran("reorder")
          /\ result.ok =>
                ((Ran("tag") /\ Ran("reorder") /\ Ran("verbalize"))
                    <=> GateHolds(cfg, gateText))
          /\ ~GateHolds(cfg, gateText) =>
                /\ ~EntityRequested
                /\ \E i \in 1..(Len(ran) - 1) :
                      ran[i] = "gate" /\ ran[i + 1] = "postprocess"
    /\ (pc = "done" /\ ~Ran("gate")) =>
          ~(Ran("tag") \/ Ran("reorder") \/ Ran("verbalize") \/ EntityRequested)

\* C10's case: under TN with remove_erhua an erhua character without a
\* digit opens the gate, and tag, reorder and verbalize have all run
C10_Witness ==
    /\ pc = "done" /\ result.ok
    /\ cfg.operator = "Tn" /\ cfg.remove_erhua
    /\ gateText = <<20799>>
    /\ Ran("tag") /\ Ran("reorder") /\ Ran("verbalize") /\ EntityRequested

(***************************************************************************)
(* The English ITN fallback (Spec).                                        *)
(***************************************************************************)
\* the call runs ITN with English as the resolved language
EnglishItn == lang = "En" /\ cfg.operator = "Itn"

\* `date { year: "2" day: "1" }`
DateYearDay ==
    <<100, 97, 116, 101, 32, 123, 32, 121, 101, 97, 114, 58, 32, 34, 50, 34,
      32, 100, 97, 121, 58, 32, 34, 49, 34, 32, 125>>

\* C11: under ITN with English as the resolved language the tag stage
\* requests the zh/itn tagger (tagger_enable_0_to_9 when that flag is set),
\* the reorder stage uses the Chinese/Japanese ITN table, the verbalize
\* stage requests zh/itn/verbalizer.fst, and the call never returns
\* InvalidLanguage.
C11_EnglishItnUsesChinese ==
    [][EnglishItn =>
          /\ pc = "tag" =>
                requests' = Append(requests,
                                IF cfg.enable_0_to_9
                                THEN "zh/itn/tagger_enable_0_to_9.fst"
                                ELSE "zh/itn/tagger.fst")
          /\ pc = "reorder" =>
                /\ pc' = "verbalize"
                /\ text' = reorder(itn_orders, text).val
          /\ pc = "verbalize" =>
                requests' = Append(requests, "zh/itn/verbalizer.fst")
          /\ pc' = "done" => result'.err # "InvalidLanguage"]_vars

\* C11's case: an English ITN call whose tagger wrote a date with day
\* before year returns it with year first, the order of the Chinese ITN
\* table
C11_Witness ==
    /\ pc = "done" /\ EnglishItn /\ cfg.lang = "Auto"
    /\ requests = <<"zh/itn/tagger.fst", "zh/itn/verbalizer.fst">>
    /\ result = Ok(DateYearDay)

(***************************************************************************)
(* Properties of the automaton cache over a session (SpecSession).         *)
(***************************************************************************)
\* the errors of a failed load
LoadErrors == {"FstNotFound", "FstLoadError"}

\* the step belongs to a running call and the paths it requests
InCall == pc \notin {"idle", "done"}
NewRequests ==
    {requests'[i] : i \in (Len(requests) + 1)..Len(requests')}

\* C12: a request for a path that is cached is served from the cache: the
\* file of the path is not read again and the request does not fail with
\* a load error, under whatever configuration the call runs.
C12_CachedNotReloaded ==
    [][InCall =>
          /\ \A p \in NewRequests \cap cache :
                /\ loads'[p].reads = loads[p].reads
                /\ loads'[p].hits = loads[p].hits + 1
                /\ p \in cache'
          /\ (pc' = "done" /\ result'.err \in LoadErrors)
                => requests'[Len(requests')] \notin cache]_vars

\* C12's case: the second call has requested the Chinese TN tagger under a
\* configuration other than the first call's and got it from the cache
C12_Witness ==
    /\ calls = 2 /\ cfg.traditional_to_simple
    /\ requests = <<"traditional_to_simple.fst", "zh/tn/tagger.fst">>
    /\ loads["zh/tn/tagger.fst"] = [reads |-> 1, hits |-> 1]
    /\ loads["traditional_to_simple.fst"] = [reads |-> 1, hits |-> 0]

\* C13 as stated: the file of a path is read at most once in a session,
\* failed attempts counted.
C13_AtMostOneRead ==
    \A p \in Paths : loads[p].reads <= 1

\* C13 as amended: the file of a path is read only by a request made
\* while the path is not cached, once by each such request; so at most one
\* read of a path succeeds and none follows it, while a failed read is
\* repeated by every later request for the path.
C13_ReadsOnlyUncached ==
    [][\A p \in Paths :
          /\ loads'[p].reads \in {loads[p].reads, loads[p].reads + 1}
          /\ loads'[p].reads # loads[p].reads
                => InCall /\ p \in NewRequests /\ p \notin cache
          /\ (InCall /\ p \in NewRequests /\ p \notin cache)
                => loads'[p].reads = loads[p].reads + 1
          /\ (p \notin cache /\ p \in cache')
                => loads'[p].reads = loads[p].reads + 1]_vars

\* C13's case: the second call has read the missing file of the English
\* tagger again
C13_Witness ==
    /\ calls = 2 /\ pc = "done" /\ result = Err("FstNotFound")
    /\ requests = <<"en/tn/tagger.fst">>
    /\ fs["en/tn/tagger.fst"] = "missing"
    /\ loads["en/tn/tagger.fst"] = [reads |-> 2, hits |-> 0]
    /\ "en/tn/tagger.fst" \notin cache

(***************************************************************************)
(* Error propagation in a call (Spec).                                     *)
(***************************************************************************)
\* the stages of a call in the order of normalize_with_config
StageOrder ==
    <<"fix", "preprocess", "detect", "gate", "tag", "reorder", "verbalize",
      "postprocess">>

\* the position of a stage in StageOrder
StageIndex(stage) ==
    CHOOSE i \in 1..Len(StageOrder) : StageOrder[i] = stage

\* C14: when get_or_load or an automaton returns an error in a call, the
\* call is over and has returned exactly that error, without a text; the
\* stage that failed is the last one run and no stage after it has run;
\* the error is a load error of the last path requested or an operation
\* error; and a call returns no error but such a one.
C14_StageErrorPropagates ==
    /\ failure # NoResult =>
          /\ pc = "done" /\ result = failure
          /\ ~result.ok /\ result.val = <<>>
          /\ result.err \in LoadErrors \cup {"FstOperationError"}
          /\ ran # <<>> /\ requests # <<>>
          /\ ran[Len(ran)] \in {"preprocess", "tag", "verbalize", "postprocess"}
          /\ \A i \in 1..Len(StageOrder) :
                i > StageIndex(ran[Len(ran)]) => ~Ran(StageOrder[i])
          /\ result.err = "FstNotFound"
                <=> fs[requests[Len(requests)]] = "missing"
          /\ result.err = "FstLoadError"
                <=> fs[requests[Len(requests)]] = "corrupt"
    /\ (pc = "done" /\ ~result.ok) => failure = result
    /\ (pc = "done" /\ result.ok) =>
          \A i \in 1..Len(requests) : fs[requests[i]] = "ok"

\* C14's case: the tagger has answered a digit with an operation error and
\* the call has returned it, reorder, verbalize and postprocess not run
C14_Witness ==
    /\ pc = "done" /\ input = <<49>>
    /\ failure = Err("FstOperationError") /\ result = failure
    /\ ran = <<"preprocess", "detect", "gate", "tag">>

(***************************************************************************)
(* Whitespace around the input (SpecCall).                                 *)
(***************************************************************************)
\* the text neither starts nor ends with whitespace
NoOuterWhitespace(t) ==
    t = <<>> \/ (~IsWhitespace(t[1]) /\ ~IsWhitespace(t[Len(t)]))

\* C15: with fix_contractions off, what normalize can return for a text
\* with whitespace before and after it is what it can return for the text
\* alone, and every text it returns neither starts nor ends with
\* whitespace.
C15_OuterWhitespaceIgnored ==
    nResults.done =>
        /\ nResults.padded = nResults.bare
        /\ \A r \in nResults.padded : r.ok => NoOuterWhitespace(r.val)

\* C15's case: a digit between a tab and a blank under ITN, where the call
\* tags and verbalizes and can return the digit or an error
C15_Witness ==
    /\ nResults.done
    /\ nInput.pre = <<9>> /\ nInput.text = <<49>> /\ nInput.post = <<32>>
    /\ nInput.cfg.operator = "Itn"
    /\ Ok(<<49>>) \in nResults.padded
    /\ Err("FstOperationError") \in nResults.padded

(***************************************************************************)
(* The order of the stages and of the automaton requests (Spec).           *)
(***************************************************************************)
\* the place of a path in the order traditional_to_simple, tagger,
\* verbalizer, full_to_half, remove_interjections, remove_puncts, tag_oov
RequestRank(p) ==
    IF p = "traditional_to_simple.fst" THEN 1
    ELSE IF p \in TaggerPaths THEN 2
    ELSE IF p \in VerbalizerPaths THEN 3
    ELSE IF p = "full_to_half.fst" THEN 4
    ELSE IF p = "remove_interjections.fst" THEN 5
    ELSE IF p = "remove_puncts.fst" THEN 6
    ELSE 7

\* the stages run, the contraction fix left out
RanAfterFix == IF Ran("fix") THEN Tail(ran) ELSE ran

\* C16: in a call the stages run are in the order contraction fix,
\* preprocess, language resolution, gate, tag, reorder, verbalize,
\* postprocess, none twice; the paths requested are in the order
\* traditional_to_simple, tagger, verbalizer, full_to_half,
\* remove_interjections, remove_puncts, tag_oov, none twice; reorder runs
\* right after tag with a tagger the last path requested, and verbalize
\* right after reorder; a call that returns a text has run either all of
\* tag, reorder, verbalize, each once, or none of them.
C16_FixedStageOrder ==
    /\ \A i, j \in 1..Len(ran) :
          i < j => StageIndex(ran[i]) < StageIndex(ran[j])
    /\ \A i, j \in 1..Len(requests) :
          i < j => RequestRank(requests[i]) < RequestRank(requests[j])
    /\ pc \in {"reorder", "verbalize"} =>
          /\ ran[Len(ran)] = (IF pc = "reorder" THEN "tag" ELSE "reorder")
          /\ requests # <<>> /\ requests[Len(requests)] \in TaggerPaths
    /\ Requested \cap VerbalizerPaths # {} =>
          Ran("reorder") /\ Requested \cap TaggerPaths # {}
    /\ Ran("reorder") => Ran("tag") /\ Requested \cap TaggerPaths # {}
    /\ (pc = "done" /\ result.ok) =>
          RanAfterFix \in
              {<<"preprocess", "detect", "gate", "tag", "reorder", "verbalize",
                 "postprocess">>,
               <<"preprocess", "detect", "gate", "postprocess">>}

\* C16's case: a call with every toggle enabled has run all eight stages
\* and requested seven automata, traditional_to_simple first and tag_oov
\* last
C16_Witness ==
    /\ pc = "done" /\ result.ok /\ cfg \in FullConfigs /\ cfg.operator = "Tn"
    /\ ran = StageOrder
    /\ requests = <<"traditional_to_simple.fst", "zh/tn/tagger.fst",
                    "zh/tn/verbalizer_remove_erhua.fst", "full_to_half.fst",
                    "remove_interjections.fst", "remove_puncts.fst",
                    "tag_oov.fst">>

\* C17: over the calls of a session, returning a text or an error, no step
\* takes a path out of the cache; the file of a cached path is not read
\* again, so its entry is not replaced; and a path enters the cache only
\* by a request of that step whose file loaded.
C17_CacheInsertionOnly ==
    [][/\ cache \subseteq cache'
       /\ \A p \in cache : loads'[p].reads = loads[p].reads
       /\ \A p \in cache' \ cache :
             p \in NewRequests /\ fs'[p] = "ok"
                /\ loads'[p].reads = loads[p].reads + 1]_vars

\* C17's case: the second call has failed on the missing Chinese tagger
\* and the entry the first call inserted is still cached, its file read
\* once
C17_Witness ==
    /\ calls = 2 /\ pc = "done" /\ result = Err("FstNotFound")
    /\ requests = <<"traditional_to_simple.fst", "zh/tn/tagger.fst">>
    /\ cache = {"traditional_to_simple.fst"}
    /\ loads["traditional_to_simple.fst"] = [reads |-> 1, hits |-> 1]

\* C18: a request for a path whose file is missing ends the call with
\* FstNotFound and one whose file is corrupt ends it with FstLoadError; the
\* path is the last one the call requests and is not cached; the paths
\* cached before are still cached, their files not read again, and the
\* only paths added are the ones requested before it whose files loaded.
C18_LoadFailureFatal ==
    [][InCall =>
          \A p \in NewRequests :
             fs'[p] # "ok" =>
                /\ pc' = "done"
                /\ result' = (IF fs'[p] = "missing" THEN Err("FstNotFound")
                              ELSE Err("FstLoadError"))
                /\ p = requests'[Len(requests')]
                /\ p \notin cache /\ p \notin cache'
                /\ cache \subseteq cache'
                /\ \A q \in cache : loads'[q].reads = loads[q].reads
                /\ cache' \ cache \subseteq NewRequests \ {p}]_vars

\* C18's case: the second call has got the Chinese tagger from the cache
\* and failed, as the first did, on the corrupt file of the verbalizer
C18_Witness ==
    /\ calls = 2 /\ pc = "done" /\ result = Err("FstLoadError")
    /\ requests = <<"zh/tn/tagger.fst", "zh/tn/verbalizer.fst">>
    /\ fs["zh/tn/verbalizer.fst"] = "corrupt"
    /\ cache = {"zh/tn/tagger.fst"}
    /\ loads["zh/tn/tagger.fst"] = [reads |-> 1, hits |-> 1]
    /\ loads["zh/tn/verbalizer.fst"] = [reads |-> 2, hits |-> 0]

(***************************************************************************)
(* The choice of the field order (SpecParse).                              *)
(***************************************************************************)
\* the token has a field preserve_order, whatever its value
CarriesSentinel(t) == str_preserve_order \in DOMAIN t.members

\* the token has the field preserve_order with the value "true"
SentinelTrue(t) ==
    CarriesSentinel(t) /\ t.members[str_preserve_order] = str_true

\* the keys of ks, each once, at its first occurrence
RECURSIVE FirstSeen(_)
FirstSeen(ks) ==
    IF ks = <<>> THEN <<>>
    ELSE LET before == FirstSeen(SubSeq(ks, 1, Len(ks) - 1))
             last == ks[Len(ks)]
         IN IF \E i \in 1..Len(before) : before[i] = last
            THEN before ELSE Append(before, last)

\* the token written with the keys of ord that it has, in that order
WrittenIn(t, ord) ==
    LET Has(k) == k \in DOMAIN t.members
    IN t.name \o <<32, 123>> \o format_fields(t, SelectSeq(ord, Has))
           \o <<32, 125>>

\* the tokens parsed, each written in the order Order gives it
TextWith(Order(_)) ==
    JoinSpace([i \in 1..Len(pState.tokens) |->
                  WrittenIn(pState.tokens[i], Order(pState.tokens[i]))])

\* the order of the claim as stated: canonical for a listed type without a
\* field preserve_order, first-seen otherwise
StatedOrder(t) ==
    IF t.name \in DOMAIN POrders /\ ~CarriesSentinel(t)
    THEN POrders[t.name] ELSE FirstSeen(t.order)

\* the order of the claim as amended: canonical for a listed type unless
\* preserve_order is "true", the token's order list otherwise
AmendedOrder(t) ==
    IF t.name \in DOMAIN POrders /\ ~SentinelTrue(t)
    THEN POrders[t.name] ELSE t.order

\* C19 as stated: a token is written in the canonical order if the table
\* lists its type and it has no field preserve_order, and in its
\* first-seen field order in every other case.
C19_SentinelByPresence ==
    Reserialized => pResult = Ok(TextWith(StatedOrder))

\* C19 as amended: a token is written in the canonical order if the table
\* lists its type and it has no field preserve_order with the value
\* "true"; in every other case it is written in the order of its order
\* list.  A preserve_order field with another value does not keep the
\* original order.
C19_SentinelByValue ==
    Reserialized => pResult = Ok(TextWith(AmendedOrder))

\* C19's case: under the English TN table a date with day before
\* preserve_order: "1" is written in the canonical order, preserve_order
\* first
C19_Witness ==
    /\ Reserialized
    /\ pOrders = [lang |-> "En", operator |-> "Tn"]
    /\ pChars = str_date \o <<32, 123>> \o FieldText(str_day, <<49>>)
                   \o FieldText(str_preserve_order, <<49>>) \o <<32, 125>>
    /\ pResult = Ok(str_date \o <<32, 123>>
                       \o FieldText(str_preserve_order, <<49>>)
                       \o FieldText(str_day, <<49>>) \o <<32, 125>>)

(***************************************************************************)
(* The field-order tables (SpecParse).                                     *)
(***************************************************************************)
\* the TN table the claim gives Chinese and Japanese
ClaimedZhJaTn ==
    (str_date :> <<str_year, str_month, str_day>>)
    @@ (str_fraction :> <<str_denominator, str_numerator>>)
    @@ (str_measure :> <<str_denominator, str_numerator, str_value>>)
    @@ (str_money :> <<str_value, str_currency>>)
    @@ (str_time :> <<str_noon, str_hour, str_minute, str_second>>)

\* the ITN table the claim gives Chinese and Japanese
ClaimedZhJaItn ==
    (str_date :> <<str_year, str_month, str_day>>)
    @@ (str_fraction :> <<str_sign, str_numerator, str_denominator>>)
    @@ (str_measure :> <<str_numerator, str_denominator, str_value>>)
    @@ (str_money :> <<str_currency, str_value, str_decimal>>)
    @@ (str_time :> <<str_hour, str_minute, str_second, str_noon>>)

\* the table the claim gives English TN
ClaimedEnTn ==
    (str_date :> <<str_preserve_order, str_text, str_day, str_month, str_year>>)
    @@ (str_money :> <<str_integer_part, str_fractional_part, str_quantity,
                       str_currency_maj>>)

\* the table the claim gives a language and an operator; English ITN has
\* the empty one
ClaimedTable(l, operator) ==
    IF l \in {"Zh", "Ja"}
    THEN IF operator = "Tn" THEN ClaimedZhJaTn ELSE ClaimedZhJaItn
    ELSE IF operator = "Tn" THEN ClaimedEnTn ELSE <<>>

\* the claimed table of the parser under test
Claimed == ClaimedTable(pOrders.lang, pOrders.operator)

\* table order for every token of a listed type
ListedOrder(t) ==
    IF t.name \in DOMAIN Claimed THEN Claimed[t.name] ELSE t.order

\* table order for a token of a listed type unless it carries
\* preserve_order: "true"
ListedOrderUnlessKept(t) ==
    IF t.name \in DOMAIN Claimed /\ ~SentinelTrue(t)
    THEN Claimed[t.name] ELSE t.order

\* every language and operator has the table the claim gives it
TablesAsClaimed ==
    /\ POrders = Claimed
    /\ \A l \in {"En", "Zh", "Ja"}, operator \in Operators :
          TokenParser_new(l, operator) = ClaimedTable(l, operator)

\* C20 as stated: each language and operator has the table listed, and
\* every token of a listed type is written with its fields in table
\* order, absent keys skipped; tokens of other types keep their order.
C20_TableOrderAlways ==
    /\ TablesAsClaimed
    /\ Reserialized => pResult = Ok(TextWith(ListedOrder))

\* C20 as amended: each language and operator has the table listed, and
\* every token of a listed type that does not carry preserve_order: "true"
\* is written with its fields in table order, absent keys skipped; a token
\* that carries it, and every token of another type (so every token under
\* the empty English ITN table), keeps the order of its order list.
C20_TableOrderUnlessKept ==
    /\ TablesAsClaimed
    /\ Reserialized => pResult = Ok(TextWith(ListedOrderUnlessKept))

\* C20's case: the Japanese TN parser, sharing the Chinese table, has
\* written a money entity with value before currency
C20_Witness ==
    /\ Reserialized
    /\ pOrders = [lang |-> "Ja", operator |-> "Tn"]
    /\ pChars = str_money \o <<32, 123>> \o FieldText(str_currency, <<49>>)
                   \o FieldText(str_value, <<50>>) \o <<32, 125>>
    /\ pResult = Ok(str_money \o <<32, 123>> \o FieldText(str_value, <<50>>)
                       \o FieldText(str_currency, <<49>>) \o <<32, 125>>)

(***************************************************************************)
(* Repeated keys and the order list (SpecParse).                           *)
(***************************************************************************)
\* no key occurs twice in ks
NoRepeat(ks) == \A i, j \in 1..Len(ks) : i # j => ks[i] # ks[j]

\* the order to_string_with_order would choose were the order list to hold
\* every key once, at its first occurrence
OnceOrder(t) ==
    IF t.name \in DOMAIN POrders /\ ~SentinelTrue(t)
    THEN POrders[t.name] ELSE FirstSeen(t.order)

\* C21 as stated: the order list of a parsed token holds no key twice, and
\* the token is written with every key once, a repeated key at the place
\* of its first occurrence with its last value.
C21_RepeatedKeyOnce ==
    Reserialized =>
        /\ \A i \in 1..Len(pState.tokens) : NoRepeat(pState.tokens[i].order)
        /\ pResult = Ok(TextWith(OnceOrder))

\* the keys of the order list of a token
OrderKeys(t) == {t.order[i] : i \in 1..Len(t.order)}

\* C22: at every point of the parse, the token under construction and
\* every token pushed have the same keys in the order list as in members.
C22_OrderKeysAreMembers ==
    /\ OrderKeys(pState.token) = DOMAIN pState.token.members
    /\ \A i \in 1..Len(pState.tokens) :
          OrderKeys(pState.tokens[i]) = DOMAIN pState.tokens[i].members

\* C22's case: a token parsed from a body with the key day twice has two
\* entries in its order list and one member, the last value
C22_Witness ==
    /\ pState.phase = "done" /\ Len(pState.tokens) = 1
    /\ pState.tokens[1].order = <<str_day, str_day>>
    /\ pState.tokens[1].members = (str_day :> str_true)


\* the output labels of the best path that are not epsilon, in path order
NonEpsilon(ls) == LET Symbol(l) == l # EPS_LABEL IN SelectSeq(ls, Symbol)

\* the non-epsilon labels that are Unicode scalar values, in path order
ScalarLabels(ls) ==
    LET Scalar(l) == l # EPS_LABEL /\ IsScalarValue(l) IN SelectSeq(ls, Scalar)

\* some non-epsilon output label lies above the byte range
HasHigh(ls) == \E i \in 1..Len(ls) : ls[i] # EPS_LABEL /\ ls[i] > 255

\* the applier has decoded the output labels of a best path
Decoded == aResult # NoResult /\ aInput # <<>> /\ aOutcome.kind = "path"

\* the characters a text whose UTF-8 encoding is made of ApplyLabels' bytes
\* can hold: the letter, and the four three-byte sequences that start with
\* 228 and continue with 189 or 160
ByteChars == {97, 20320, 18493, 18464, 20349}

\* the characters of ByteChars whose UTF-8 encoding uses bytes of bs only:
\* the characters a text encoded as bs can hold
CharsWithin(bs) ==
    {c \in ByteChars :
        \A i \in 1..Len(Utf8EncodeChar(c)) :
            \E j \in 1..Len(bs) : bs[j] = Utf8EncodeChar(c)[i]}

\* the bytes are the UTF-8 encoding of the text s
EncodedAs(bytes, s) == Utf8Encode(s) = bytes

\* the byte mode of the decoding: the text whose UTF-8 encoding the
\* non-epsilon labels are, or an automaton-operation error if there is none
ByteMode ==
    LET bytes == NonEpsilon(aOutcome.olabels)
    IN IF aResult.ok THEN EncodedAs(bytes, aResult.val)
       ELSE /\ aResult = Err("FstOperationError")
            /\ \A s \in TextsUpTo(CharsWithin(bytes), Len(bytes)) :
                   ~EncodedAs(bytes, s)

\* C23 as stated: when some non-epsilon output label exceeds 255 the decoded
\* text has one character per non-epsilon label, the label taken as its code
\* point; otherwise the non-epsilon labels are decoded as UTF-8 bytes, with
\* an automaton-operation error if they are not valid UTF-8.
C23_OneCharPerSymbol ==
    Decoded =>
        IF HasHigh(aOutcome.olabels)
        THEN aResult = Ok(NonEpsilon(aOutcome.olabels))
        ELSE ByteMode

\* C23 amended: when some non-epsilon output label exceeds 255 the decoded
\* text has one character per non-epsilon label that is a Unicode scalar
\* value, in path order, and a label that is none (a surrogate, or above
\* U+10FFFF) is left out without an error; otherwise the non-epsilon labels
\* are decoded as UTF-8 bytes, with an automaton-operation error if they are
\* not valid UTF-8.
C23_OneCharPerScalarSymbol ==
    Decoded =>
        IF HasHigh(aOutcome.olabels)
        THEN aResult = Ok(ScalarLabels(aOutcome.olabels))
        ELSE ByteMode

\* C23's case: a best path with an epsilon, a label in the byte range and a
\* surrogate label is decoded to the one character of the second label
C23_Witness ==
    /\ Decoded
    /\ aOutcome.olabels = <<0, 228, 55296>>
    /\ aResult = Ok(<<228>>)

\* C23's byte mode: three byte labels decoded to one ideograph
C23_ByteWitness ==
    /\ Decoded
    /\ aOutcome.olabels = <<228, 189, 160>>
    /\ aResult = Ok(<<20320>>)


\* the position the next iteration of the parser looks at, past the
\* whitespace it skips first
LookAt == SkipWhile(pChars, pState.index, "ws")

\* the parser stands before a character that is no whitespace and starts
\* no name or key, and in an entity body is not the closing brace either
AtUnexpected ==
    /\ pState.phase \in {"outer", "inner"}
    /\ pState.index < Len(pChars)
    /\ LookAt < Len(pChars)
    /\ ~InClass(Ch(pChars, LookAt), "name")
    /\ pState.phase = "inner" => Ch(pChars, LookAt) # 125

\* the step ends the parse with a failure that names the character the
\* parser stood before and its position
FailsThere ==
    /\ pState'.phase = "err"
    /\ pState'.errchar = Ch(pChars, LookAt)
    /\ pState'.errpos = LookAt

\* C24 as stated: wherever the parser meets an unexpected character, at
\* entity-name position or inside an entity body, the parse fails and the
\* failure names that character and its position.
C24_UnexpectedAlwaysFails ==
    [][AtUnexpected => FailsThere]_vars

\* C24 amended: the parse fails exactly on an unexpected character at
\* entity-name position, and the failure names that character and its
\* position; inside an entity body an unexpected character is passed over
\* and the parse goes on in the same body with the token as it was.
C24_FailsAtNamePositionOnly ==
    [][/\ AtUnexpected /\ pState.phase = "outer" => FailsThere
       /\ AtUnexpected /\ pState.phase = "inner" =>
              pState' = [pState EXCEPT !.index = LookAt + 1]
       /\ pState'.phase = "err" /\ pState.phase # "err" =>
              AtUnexpected /\ pState.phase = "outer"]_vars

\* C24's case: in `date{1` the digit in the body has been passed over and
\* the parse has ended with the one token, without a failure
C24_Witness ==
    /\ pChars = str_date \o <<123, 49>>
    /\ pState.phase = "done"
    /\ pState.index = 6
    /\ pState.tokens = <<Token_new(str_date)>>


\* the text holds an apostrophe-like character: the straight apostrophe
\* U+0027 or the curly apostrophe U+2019
HasApostropheLike(t) == Contains(t, 39) \/ Contains(t, 8217)

\* C25 as stated: step 1 hands the input to the contraction expander exactly
\* when fix_contractions is set and the input holds a straight or a curly
\* apostrophe; otherwise the input reaches preprocess unchanged.
C25_ApostropheLikeDelegates ==
    pc = "pre" =>
        IF cfg.fix_contractions /\ HasApostropheLike(input)
        THEN ran = <<"fix">> /\ text = fix_contractions(input)
        ELSE ran = <<>> /\ text = input


\* C26: reorder of the empty text or of a text of whitespace only returns
\* the empty text without a parse, whatever the table of the parser.
C26_BlankGivesEmpty ==
    \A kind \in ParserKinds :
        (pOrders = kind /\ pResult # NoResult /\ IsBlank(pChars)) =>
            /\ pResult = Ok(<<>>)
            /\ pState.phase = "returned"
            /\ reorder(TokenParser_new(kind.lang, kind.operator), pChars) = Ok(<<>>)

\* C26's case: a parser with the empty table (English ITN) has returned the
\* empty text for a text of two blanks
C26_Witness ==
    /\ pOrders = [lang |-> "En", operator |-> "Itn"]
    /\ pChars = <<32, 32>>
    /\ pResult = Ok(<<>>)


\* C27: no call ends with the error InvalidLanguage: from the gate on the
\* language is En, Zh or Ja, the tag and verbalize stages never stand before
\* the catch-all arm, and neither the result nor the failure recorded is
\* InvalidLanguage.
C27_NoInvalidLanguage ==
    /\ result.err # "InvalidLanguage"
    /\ failure.err # "InvalidLanguage"
    /\ pc \in {"gate", "tag", "reorder", "verbalize"} =>
           lang \in {"En", "Zh", "Ja"}
    /\ pc = "tag" =>
           tag_path(effective_lang(lang, cfg.operator), cfg) \in TaggerPaths
    /\ pc = "verbalize" =>
           verbalize_path(effective_lang(lang, cfg.operator), cfg)
               \in VerbalizerPaths

\* C27's case: a call under language Auto and ITN on a text detected as
\* English has run the tag and verbalize stages and returned a text
C27_Witness ==
    /\ cfg.lang = "Auto" /\ cfg.operator = "Itn"
    /\ lang = "En"
    /\ Ran("tag") /\ Ran("verbalize")
    /\ result.ok


(***************************************************************************)
(* The call on a Normalizer with a history (SpecSession).                  *)
(***************************************************************************)
\* the tagger and verbalizer paths of a call that resolves the language l
LangPaths(l, c) ==
    <<tag_path(effective_lang(l, c.operator), c),
      verbalize_path(effective_lang(l, c.operator), c)>>

\* the paths a call under configuration c can request
CallPaths(c) ==
    preprocess_paths(c)
    \o (IF c.lang = "Auto"
        THEN LangPaths("En", c) \o LangPaths("Zh", c) \o LangPaths("Ja", c)
        ELSE LangPaths(c.lang, c))
    \o postprocess_paths(c)

\* the files fixed: every way the files at the paths ps can be, given what
\* has been found of them so far
RECURSIVE FilesFixed(_, _)
FilesFixed(f, ps) ==
    IF ps = <<>> THEN {f}
    ELSE UNION {FilesFixed([f EXCEPT ![Head(ps)] = found], Tail(ps)) :
                   found \in FoundChoices(f, Head(ps))}

\* what normalize_with_config(t, c) can return on a Normalizer whose cache
\* holds the paths of held, with the files as in f
Returns(t, c, held, f) ==
    LET fixed == IF fixes_contractions(c, t) THEN fix_contractions(t) ELSE t
        start == [StageState EXCEPT !.text = fixed, !.cache = held, !.fs = f]
    IN {IF st.res.ok THEN Ok(st.text) ELSE st.res :
           st \in call_from("pre", start, c.lang, c)}

\* a request for path p, with the file as it was found, has the result it
\* has on an empty cache
SameRequest(p) ==
    \A found \in FoundChoices(fs, p) :
        get_or_load(cache, p, found).res = get_or_load({}, p, found).res

\* C28: the stored configuration is the one given at construction; in every
\* state of a session, a request for any path has the result it has on an
\* empty cache; and when the first call of a Normalizer has returned,
\* whatever the files are, a call with any text and configuration can
\* return exactly what it can return on a Normalizer with an empty cache.
C28_HistoryIndependent ==
    /\ config = DefaultConfig
    /\ \A p \in Paths : SameRequest(p)
    /\ (pc = "idle" /\ calls = 1) =>
           \A t \in SessionInputs, c \in SessionConfigs \cup {config} :
               \A f \in FilesFixed(fs, CallPaths(c)) :
                   Returns(t, c, cache, f) = Returns(t, c, {}, f)

\* C28's case: the first call has loaded the Chinese tagger and failed on
\* the missing verbalizer; the Normalizer is ready for its next call
C28_Witness ==
    /\ pc = "idle" /\ calls = 1
    /\ cache = {"zh/tn/tagger.fst"}
    /\ fs["zh/tn/verbalizer.fst"] = "missing"
    /\ config = DefaultConfig

=============================================================================
